---- MODULE Spec2Model ----
(***************************************************************************)
(* Question-answering orchestration of the FPT School counseling chatbot:  *)
(* RAGService.askQuestion and the services it drives (GeminiService,       *)
(* PineconeService, WebSearchService, FeedbackService).                    *)
(*                                                                         *)
(* Texts are sequences of characters (one-character strings), so that      *)
(* String.includes, toLowerCase and length are computed, not assumed.      *)
(* Characters the TLA+ lexer rejects are written as a base letter and a    *)
(* mark, each still one character of the text: "d-", "a(" and "i~" for the *)
(* Vietnamese d with stroke, a with breve and i with tilde, and "v/" for   *)
(* the square-root sign.                                                   *)
(* Scores are integers in hundredths (0.15 is 15); confidences are        *)
(* fractions of integers.                                                  *)
(***************************************************************************)
EXTENDS Integers, Sequences, FiniteSets, TLC

(***************************************************************************)
(* Bounds of the model.                                                    *)
(***************************************************************************)
\* words per question handed to the classifier on its own
MaxWords == 2
\* matches in one index response (the code asks for topK = 8)
MaxMatches == 2
\* askQuestion calls made one after the other in one behaviour
MaxCalls == 1
\* askQuestion calls that can be in flight at the same time
NumReq == 2

(***************************************************************************)
(* Text helpers: what the JavaScript string methods do.                    *)
(***************************************************************************)
\* String.prototype.includes
Includes(s, k) ==
  \E i \in 0..(Len(s) - Len(k)) : SubSeq(s, i + 1, i + Len(k)) = k

\* Array.prototype.some over a keyword list
SomeIncluded(keywords, s) ==
  \E j \in 1..Len(keywords) : Includes(s, keywords[j])

UpperChars ==
  <<"A","B","C","D","E","F","G","H","I","J","K","L","M",
    "N","O","P","Q","R","S","T","U","V","W","X","Y","Z","D-","A(","I~">>

LowerChars ==
  <<"a","b","c","d","e","f","g","h","i","j","k","l","m",
    "n","o","p","q","r","s","t","u","v","w","x","y","z","d-","a(","i~">>

\* the lower-case letter of each upper-case letter
LowerOf == [c \in {UpperChars[i] : i \in 1..Len(UpperChars)} |->
              LowerChars[CHOOSE i \in 1..Len(UpperChars) : UpperChars[i] = c]]

LowerChar(c) == IF c \in DOMAIN LowerOf THEN LowerOf[c] ELSE c

\* String.prototype.toLowerCase
toLowerCase(s) == [i \in 1..Len(s) |-> LowerChar(s[i])]

\* Array.prototype.join
RECURSIVE Join(_, _)
Join(parts, sep) ==
  IF Len(parts) = 0 THEN << >>
  ELSE IF Len(parts) = 1 THEN parts[1]
  ELSE parts[1] \o sep \o Join(Tail(parts), sep)

(***************************************************************************)
(* GeminiService.isCareerRelatedQuestion: the keyword lists of the source. *)
(***************************************************************************)
fptEducationKeywords ==
  <<
    <<"f","p","t">>, <<"s","c","h","o","o","l">>, <<"t","r","ư","ờ","n","g">>,
    <<"d-","ạ","i"," ","h","ọ","c">>, <<"c","a","o"," ","d-","ẳ","n","g">>,
    <<"u","n","i","v","e","r","s","i","t","y">>, <<"c","o","l","l","e","g","e">>,
    <<"h","ọ","c"," ","p","h","í">>, <<"t","u","i","t","i","o","n">>,
    <<"c","h","i"," ","p","h","í">>, <<"c","o","s","t">>, <<"h","ọ","c"," ","b","ổ","n","g">>,
    <<"s","c","h","o","l","a","r","s","h","i","p">>, <<"t","u","y","ể","n"," ","s","i","n","h">>,
    <<"a","d","m","i","s","s","i","o","n">>, <<"d-","a(","n","g"," ","k","ý">>,
    <<"r","e","g","i","s","t","e","r">>, <<"n","h","ậ","p"," ","h","ọ","c">>,
    <<"e","n","r","o","l","l">>, <<"c","h","ư","ơ","n","g"," ","t","r","ì","n","h">>,
    <<"p","r","o","g","r","a","m">>, <<"k","h","ó","a"," ","h","ọ","c">>,
    <<"c","o","u","r","s","e">>, <<"m","ô","n"," ","h","ọ","c">>, <<"s","u","b","j","e","c","t">>,
    <<"g","i","ả","n","g"," ","v","i","ê","n">>, <<"t","e","a","c","h","e","r">>,
    <<"t","h","ầ","y"," ","c","ô">>, <<"i","n","s","t","r","u","c","t","o","r">>,
    <<"m","e","n","t","o","r">>, <<"b","ằ","n","g"," ","c","ấ","p">>, <<"d","e","g","r","e","e">>,
    <<"c","h","ứ","n","g"," ","c","h","ỉ">>, <<"c","e","r","t","i","f","i","c","a","t","e">>,
    <<"d","i","p","l","o","m","a">>, <<"t","ố","t"," ","n","g","h","i","ệ","p">>,
    <<"g","r","a","d","u","a","t","e">>, <<"r","a"," ","t","r","ư","ờ","n","g">>,
    <<"f","i","n","i","s","h">>, <<"h","o","à","n"," ","t","h","à","n","h">>,
    <<"t","h","ự","c"," ","t","ậ","p">>, <<"i","n","t","e","r","n","s","h","i","p">>,
    <<"p","r","a","c","t","i","c","e">>, <<"t","h","ự","c"," ","h","à","n","h">>,
    <<"h","a","n","d","s","-","o","n">>, <<"d","ự"," ","á","n">>, <<"p","r","o","j","e","c","t">>,
    <<"b","à","i"," ","t","ậ","p">>, <<"a","s","s","i","g","n","m","e","n","t">>, <<"l","a","b">>
  >>

techCareerKeywords ==
  <<
    <<"i","t">>, <<"c","ô","n","g"," ","n","g","h","ệ"," ","t","h","ô","n","g"," ","t","i","n">>,
    <<"i","n","f","o","r","m","a","t","i","o","n"," ","t","e","c","h","n","o","l","o","g","y">>,
    <<"t","e","c","h","n","o","l","o","g","y">>, <<"l","ậ","p"," ","t","r","ì","n","h">>,
    <<"p","r","o","g","r","a","m","m","i","n","g">>, <<"c","o","d","e">>,
    <<"c","o","d","i","n","g">>, <<"d","e","v","e","l","o","p","e","r">>, <<"d","e","v">>,
    <<"p","h","ầ","n"," ","m","ề","m">>, <<"s","o","f","t","w","a","r","e">>,
    <<"ứ","n","g"," ","d","ụ","n","g">>, <<"a","p","p","l","i","c","a","t","i","o","n">>,
    <<"a","p","p">>, <<"w","e","b">>, <<"w","e","b","s","i","t","e">>,
    <<"f","r","o","n","t","e","n","d">>, <<"b","a","c","k","e","n","d">>,
    <<"f","u","l","l","s","t","a","c","k">>, <<"d","a","t","a">>, <<"d","ữ"," ","l","i","ệ","u">>,
    <<"d","a","t","a","b","a","s","e">>, <<"c","ơ"," ","s","ở"," ","d","ữ"," ","l","i","ệ","u">>,
    <<"s","q","l">>, <<"a","i">>,
    <<"a","r","t","i","f","i","c","i","a","l"," ","i","n","t","e","l","l","i","g","e","n","c","e">>,
    <<"m","a","c","h","i","n","e"," ","l","e","a","r","n","i","n","g">>, <<"m","l">>,
    <<"c","y","b","e","r","s","e","c","u","r","i","t","y">>,
    <<"a","n"," ","n","i","n","h"," ","m","ạ","n","g">>, <<"b","ả","o"," ","m","ậ","t">>,
    <<"s","e","c","u","r","i","t","y">>, <<"h","a","c","k">>, <<"t","h","i","ế","t"," ","k","ế">>,
    <<"d","e","s","i","g","n">>, <<"g","r","a","p","h","i","c">>, <<"d-","ồ"," ","h","ọ","a">>,
    <<"u","i">>, <<"u","x">>, <<"m","a","r","k","e","t","i","n","g">>,
    <<"d","i","g","i","t","a","l"," ","m","a","r","k","e","t","i","n","g">>,
    <<"s","o","c","i","a","l"," ","m","e","d","i","a">>, <<"q","u","ả","n","g"," ","c","á","o">>,
    <<"b","u","s","i","n","e","s","s">>, <<"k","i","n","h"," ","d","o","a","n","h">>,
    <<"t","h","ư","ơ","n","g"," ","m","ạ","i">>, <<"q","u","ả","n"," ","l","ý">>,
    <<"m","a","n","a","g","e","m","e","n","t">>
  >>

careerKeywords ==
  <<
    <<"n","g","h","ề"," ","n","g","h","i","ệ","p">>, <<"c","a","r","e","e","r">>,
    <<"c","ô","n","g"," ","v","i","ệ","c">>, <<"j","o","b">>, <<"w","o","r","k">>,
    <<"v","i","ệ","c"," ","l","à","m">>, <<"k","ỹ"," ","n","a(","n","g">>,
    <<"s","k","i","l","l">>, <<"n","a(","n","g"," ","l","ự","c">>,
    <<"a","b","i","l","i","t","y">>, <<"c","o","m","p","e","t","e","n","c","y">>,
    <<"t","u","y","ể","n"," ","d","ụ","n","g">>, <<"r","e","c","r","u","i","t","m","e","n","t">>,
    <<"p","h","ỏ","n","g"," ","v","ấ","n">>, <<"i","n","t","e","r","v","i","e","w">>,
    <<"h","i","r","i","n","g">>, <<"l","ư","ơ","n","g">>, <<"s","a","l","a","r","y">>,
    <<"t","h","u"," ","n","h","ậ","p">>, <<"i","n","c","o","m","e">>, <<"w","a","g","e">>,
    <<"p","a","y">>, <<"t","h","a(","n","g"," ","t","i","ế","n">>,
    <<"p","r","o","m","o","t","i","o","n">>, <<"p","h","á","t"," ","t","r","i","ể","n">>,
    <<"d","e","v","e","l","o","p","m","e","n","t">>, <<"g","r","o","w","t","h">>,
    <<"h","ọ","c"," ","t","ậ","p">>, <<"l","e","a","r","n","i","n","g">>,
    <<"d-","à","o"," ","t","ạ","o">>, <<"t","r","a","i","n","i","n","g">>,
    <<"e","d","u","c","a","t","i","o","n">>, <<"k","i","n","h"," ","n","g","h","i","ệ","m">>,
    <<"e","x","p","e","r","i","e","n","c","e">>, <<"c","h","u","y","ê","n"," ","m","ô","n">>,
    <<"e","x","p","e","r","t","i","s","e">>, <<"p","r","o","f","e","s","s","i","o","n","a","l">>,
    <<"n","g","à","n","h">>, <<"i","n","d","u","s","t","r","y">>,
    <<"l","i~","n","h"," ","v","ự","c">>, <<"f","i","e","l","d">>, <<"s","e","c","t","o","r">>,
    <<"d","o","m","a","i","n">>, <<"c","v">>, <<"r","e","s","u","m","e">>,
    <<"h","ồ"," ","s","ơ">>, <<"p","r","o","f","i","l","e">>,
    <<"p","o","r","t","f","o","l","i","o">>, <<"t","ư","ơ","n","g"," ","l","a","i">>,
    <<"f","u","t","u","r","e">>, <<"d-","ị","n","h"," ","h","ư","ớ","n","g">>,
    <<"d","i","r","e","c","t","i","o","n">>, <<"p","a","t","h">>, <<"p","l","a","n">>,
    <<"c","ơ"," ","h","ộ","i">>, <<"o","p","p","o","r","t","u","n","i","t","y">>,
    <<"t","r","i","ể","n"," ","v","ọ","n","g">>, <<"p","r","o","s","p","e","c","t">>,
    <<"p","o","t","e","n","t","i","a","l">>, <<"m","ụ","c"," ","t","i","ê","u">>,
    <<"g","o","a","l">>, <<"t","a","r","g","e","t">>, <<"o","b","j","e","c","t","i","v","e">>,
    <<"a","i","m">>
  >>

learningKeywords ==
  <<
    <<"h","ọ","c">>, <<"l","e","a","r","n">>, <<"s","t","u","d","y">>,
    <<"s","t","u","d","i","e","s">>, <<"a","c","a","d","e","m","i","c">>,
    <<"e","d","u","c","a","t","i","o","n">>, <<"k","i","ế","n"," ","t","h","ứ","c">>,
    <<"k","n","o","w","l","e","d","g","e">>, <<"h","i","ể","u"," ","b","i","ế","t">>,
    <<"u","n","d","e","r","s","t","a","n","d","i","n","g">>, <<"t","à","i"," ","l","i","ệ","u">>,
    <<"d","o","c","u","m","e","n","t">>, <<"m","a","t","e","r","i","a","l">>,
    <<"r","e","s","o","u","r","c","e">>, <<"s","á","c","h">>, <<"b","o","o","k">>,
    <<"r","e","a","d","i","n","g">>, <<"r","e","s","e","a","r","c","h">>,
    <<"n","g","h","i","ê","n"," ","c","ứ","u">>, <<"t","h","ô","n","g"," ","t","i","n">>,
    <<"i","n","f","o","r","m","a","t","i","o","n">>, <<"i","n","f","o">>, <<"d","a","t","a">>,
    <<"d","e","t","a","i","l">>, <<"h","ư","ớ","n","g"," ","d","ẫ","n">>, <<"g","u","i","d","e">>,
    <<"t","u","t","o","r","i","a","l">>, <<"i","n","s","t","r","u","c","t","i","o","n">>,
    <<"c","á","c","h">>, <<"h","o","w">>, <<"l","à","m"," ","s","a","o">>, <<"w","a","y">>,
    <<"m","e","t","h","o","d">>, <<"a","p","p","r","o","a","c","h">>
  >>

generalInterestKeywords ==
  <<
    <<"g","ì">>, <<"w","h","a","t">>, <<"n","à","o">>, <<"w","h","i","c","h">>,
    <<"n","h","ư"," ","t","h","ế"," ","n","à","o">>, <<"h","o","w">>,
    <<"t","ạ","i"," ","s","a","o">>, <<"w","h","y">>, <<"b","a","o"," ","n","h","i","ê","u">>,
    <<"h","o","w"," ","m","u","c","h">>, <<"w","h","e","n">>, <<"k","h","i"," ","n","à","o">>,
    <<"ở"," ","d-","â","u">>, <<"w","h","e","r","e">>, <<"c","ó">>, <<"i","s">>, <<"a","r","e">>,
    <<"c","a","n">>, <<"c","ó"," ","t","h","ể">>
  >>

definitivelyNotCareerKeywords ==
  <<
    <<"t","h","ờ","i"," ","t","i","ế","t">>, <<"w","e","a","t","h","e","r">>,
    <<"a(","n"," ","u","ố","n","g">>, <<"f","o","o","d">>, <<"d","u"," ","l","ị","c","h">>,
    <<"t","r","a","v","e","l">>, <<"p","h","i","m">>, <<"m","o","v","i","e">>,
    <<"n","h","ạ","c">>, <<"m","u","s","i","c">>, <<"t","h","ể"," ","t","h","a","o">>,
    <<"s","p","o","r","t">>, <<"g","a","m","e">>, <<"t","r","ò"," ","c","h","ơ","i">>,
    <<"g","i","ả","i"," ","t","r","í">>, <<"e","n","t","e","r","t","a","i","n","m","e","n","t">>,
    <<"y","ê","u"," ","d-","ư","ơ","n","g">>, <<"l","o","v","e">>,
    <<"t","ì","n","h"," ","y","ê","u">>, <<"r","e","l","a","t","i","o","n","s","h","i","p">>,
    <<"s","ứ","c"," ","k","h","ỏ","e">>, <<"h","e","a","l","t","h">>, <<"b","ệ","n","h">>,
    <<"s","i","c","k">>, <<"y"," ","t","ế">>, <<"m","e","d","i","c","a","l">>
  >>

\* questionLower.length > 10 in the general-interest rule
MinGeneralLength == 10

\* a classifier that knows the career keywords only
isCareerRelatedQuestionCareerOnly(question) ==
  SomeIncluded(careerKeywords, toLowerCase(question))

\* a classifier that tests the FPT/education keywords before the deny-list
isCareerRelatedQuestionDomainFirst(question) ==
  LET questionLower == toLowerCase(question) IN
  IF SomeIncluded(fptEducationKeywords, questionLower) THEN TRUE
  ELSE IF SomeIncluded(definitivelyNotCareerKeywords, questionLower) THEN FALSE
  ELSE TRUE

\* a classifier whose last rule falls through to general conversation
isCareerRelatedQuestionDefaultFalse(question) ==
  LET questionLower == toLowerCase(question) IN
  IF SomeIncluded(definitivelyNotCareerKeywords, questionLower) THEN FALSE
  ELSE IF SomeIncluded(fptEducationKeywords, questionLower) THEN TRUE
  ELSE IF SomeIncluded(techCareerKeywords, questionLower) THEN TRUE
  ELSE IF SomeIncluded(careerKeywords, questionLower) THEN TRUE
  ELSE IF SomeIncluded(learningKeywords, questionLower) THEN TRUE
  ELSE IF SomeIncluded(generalInterestKeywords, questionLower)
          /\ Len(questionLower) > MinGeneralLength THEN TRUE
  ELSE FALSE

isCareerRelatedQuestion(question) ==
  LET questionLower == toLowerCase(question) IN
  IF SomeIncluded(definitivelyNotCareerKeywords, questionLower) THEN FALSE
  ELSE IF SomeIncluded(fptEducationKeywords, questionLower) THEN TRUE
  ELSE IF SomeIncluded(techCareerKeywords, questionLower) THEN TRUE
  ELSE IF SomeIncluded(careerKeywords, questionLower) THEN TRUE
  ELSE IF SomeIncluded(learningKeywords, questionLower) THEN TRUE
  ELSE IF SomeIncluded(generalInterestKeywords, questionLower)
          /\ Len(questionLower) > MinGeneralLength THEN TRUE
  ELSE TRUE

(***************************************************************************)
(* State.                                                                  *)
(***************************************************************************)
VARIABLES
  conversations,  \* FeedbackService.conversations: conversationId -> messages
  feedbacks,      \* FeedbackService.feedbacks
  learningData,   \* FeedbackService.learningData: question pattern -> answers
  firecrawlApp,   \* WebSearchService.firecrawlApp is set (an API key is configured)
  req,            \* the askQuestion calls in flight, one record per slot
  calls,          \* askQuestion calls started so far
  cq,             \* classifier on its own: the question
  cres,           \* classifier on its own: empty, then the one-element tuple of the classification
  http,           \* the POST /api/ask exchange of each slot: body and response
  preferences,    \* UserPreferencesService.preferences of the browser and of the server
  localStorage,   \* the browser's localStorage: chatbot-preferences, pendingFeedback
  page,           \* the chat page: feedback posts in flight, the retry loop
  index,          \* the vectors held by the Pinecone index
  ingest          \* the POST /api/ingest request in flight

mainVars == <<conversations, feedbacks, learningData, firecrawlApp, req, calls>>

extVars == <<http, preferences, localStorage, page, index, ingest>>

vars == <<conversations, feedbacks, learningData, firecrawlApp, req, calls, cq, cres, extVars>>

\* getPersonalityInstruction() without preferences
defaultPersonalityInstruction ==
  <<"H","ã","y"," ","t","r","ả"," ","l","ờ","i"," ","m","ộ","t"," ","c","á","c","h"," ","t",
    "h","â","n"," ","t","h","i","ệ","n"," ","v","à"," ","h","ữ","u"," ","í","c","h",".">>

generalQuestionLabel ==
  <<"\n","\n","C","â","u"," ","h","ỏ","i",":"," ">>

generalContextLabel ==
  <<"\n","\n","N","g","ữ"," ","c","ả","n","h"," ","c","u","ộ","c"," ","t","r","ò"," ","c","h",
    "u","y","ệ","n",":","\n">>

generalCurrentQuestionLabel ==
  <<"\n","\n","C","â","u"," ","h","ỏ","i"," ","h","i","ệ","n"," ","t","ạ","i",":"," ">>

generalWebLabel ==
  <<"\n","\n","T","h","ô","n","g"," ","t","i","n"," ","t","ừ"," ","w","e","b",":","\n">>

\* the heading of the web section after document passages
additionalWebLabel ==
  <<"\n","\n","T","H","Ô","N","G"," ","T","I","N"," ","B","Ổ"," ","S","U","N","G"," ","T","Ừ",
    " ","W","E","B",":","\n">>

\* the heading of the web section when no passage was admitted
webOnlyLabel ==
  <<"T","H","Ô","N","G"," ","T","I","N"," ","T","Ừ"," ","W","E","B",":","\n">>

userLabel ==
  <<"N","g","ư","ờ","i"," ","d","ù","n","g">>

assistantLabel ==
  <<"T","r","ợ"," ","l","ý">>

greetingWords ==
  << <<"x","i","n"," ","c","h","à","o">>,
     <<"h","e","l","l","o">>,
     <<"h","i">> >>

howAreYouWords ==
  << <<"k","h","ỏ","e"," ","k","h","ô","n","g">>,
     <<"h","o","w"," ","a","r","e"," ","y","o","u">>,
     <<"t","h","ế"," ","n","à","o">> >>

thanksWords ==
  << <<"c","ả","m"," ","ơ","n">>,
     <<"t","h","a","n","k"," ","y","o","u">>,
     <<"t","h","a","n","k","s">> >>

weatherWords ==
  << <<"t","h","ờ","i"," ","t","i","ế","t">>,
     <<"w","e","a","t","h","e","r">> >>

timeWords ==
  << <<"m","ấ","y"," ","g","i","ờ">>,
     <<"t","i","m","e">>,
     <<"t","h","ờ","i"," ","g","i","a","n">> >>

(***************************************************************************)
(* WebSearchService.                                                       *)
(***************************************************************************)
mockResults ==
  <<
    [ title |->
        <<"T","ư"," ","v","ấ","n"," ","n","g","h","ề"," ","n","g","h","i","ệ","p"," ","-"," ","H",
          "ư","ớ","n","g"," ","d","ẫ","n"," ","c","h","ọ","n"," ","n","g","à","n","h"," ","p","h",
          "ù"," ","h","ợ","p">>,
      url |-> "https://example.com/career-guide-1",
      snippet |->
        <<"H","ư","ớ","n","g"," ","d","ẫ","n"," ","c","h","i"," ","t","i","ế","t"," ","v","ề"," ",
          "c","á","c","h"," ","c","h","ọ","n"," ","n","g","h","ề"," ","n","g","h","i","ệ","p"," ",
          "p","h","ù"," ","h","ợ","p"," ","v","ớ","i"," ","n","a(","n","g"," ","l","ự","c"," ",
          "v","à"," ","s","ở"," ","t","h","í","c","h"," ","c","á"," ","n","h","â","n","."," ","C",
          "á","c"," ","b","ư","ớ","c"," ","q","u","a","n"," ","t","r","ọ","n","g"," ","t","r","o",
          "n","g"," ","v","i","ệ","c"," ","d-","ị","n","h"," ","h","ư","ớ","n","g"," ","n","g",
          "h","ề"," ","n","g","h","i","ệ","p",".">> ],
    [ title |->
        <<"K","ỹ"," ","n","a(","n","g"," ","c","ầ","n"," ","t","h","i","ế","t"," ","c","h","o",
          " ","t","h","ị"," ","t","r","ư","ờ","n","g"," ","l","a","o"," ","d-","ộ","n","g"," ",
          "h","i","ệ","n"," ","d-","ạ","i">>,
      url |-> "https://example.com/skills-2024",
      snippet |->
        <<"P","h","â","n"," ","t","í","c","h"," ","c","á","c"," ","k","ỹ"," ","n","a(","n","g",
          " ","q","u","a","n"," ","t","r","ọ","n","g"," ","n","h","ấ","t"," ","m","à"," ","n","g",
          "ư","ờ","i"," ","l","a","o"," ","d-","ộ","n","g"," ","c","ầ","n"," ","c","ó"," ","t",
          "r","o","n","g"," ","t","h","ờ","i"," ","d-","ạ","i"," ","s","ố","."," ","C","ậ","p",
          " ","n","h","ậ","t"," ","x","u"," ","h","ư","ớ","n","g"," ","t","u","y","ể","n"," ","d",
          "ụ","n","g"," ","2","0","2","4",".">> ],
    [ title |->
        <<"C","ơ"," ","h","ộ","i"," ","v","i","ệ","c"," ","l","à","m"," ","t","r","o","n","g"," ",
          "l","i~","n","h"," ","v","ự","c"," ","c","ô","n","g"," ","n","g","h","ệ"," ","t","h",
          "ô","n","g"," ","t","i","n">>,
      url |-> "https://example.com/it-jobs",
      snippet |->
        <<"T","ổ","n","g"," ","q","u","a","n"," ","v","ề"," ","c","á","c"," ","v","ị"," ","t","r",
          "í"," ","v","i","ệ","c"," ","l","à","m"," ","h","o","t"," ","t","r","o","n","g"," ","n",
          "g","à","n","h"," ","I","T",","," ","m","ứ","c"," ","l","ư","ơ","n","g"," ","v","à"," ",
          "y","ê","u"," ","c","ầ","u"," ","k","ỹ"," ","n","a(","n","g","."," ","D","ự"," ","b",
          "á","o"," ","x","u"," ","h","ư","ớ","n","g"," ","p","h","á","t"," ","t","r","i","ể","n",
          ".">> ],
    [ title |->
        <<"C","á","c","h"," ","v","i","ế","t"," ","C","V"," ","ấ","n"," ","t","ư","ợ","n","g"," ",
          "d-","ể"," ","t","h","u"," ","h","ú","t"," ","n","h","à"," ","t","u","y","ể","n"," ",
          "d","ụ","n","g">>,
      url |-> "https://example.com/cv-tips",
      snippet |->
        <<"B","í"," ","q","u","y","ế","t"," ","t","ạ","o"," ","C","V"," ","c","h","u","y","ê","n",
          " ","n","g","h","i","ệ","p",","," ","c","á","c","h"," ","t","r","ì","n","h"," ","b","à",
          "y"," ","k","i","n","h"," ","n","g","h","i","ệ","m"," ","v","à"," ","k","ỹ"," ","n",
          "a(","n","g"," ","h","i","ệ","u"," ","q","u","ả","."," ","M","ẫ","u"," ","C","V"," ",
          "d-","ạ","t"," ","c","h","u","ẩ","n"," ","2","0","2","4",".">> ],
    [ title |->
        <<"X","u"," ","h","ư","ớ","n","g"," ","t","u","y","ể","n"," ","d","ụ","n","g"," ","v","à",
          " ","p","h","á","t"," ","t","r","i","ể","n"," ","n","g","h","ề"," ","n","g","h","i","ệ",
          "p"," ","2","0","2","4">>,
      url |-> "https://example.com/trends-2024",
      snippet |->
        <<"B","á","o"," ","c","á","o"," ","v","ề"," ","x","u"," ","h","ư","ớ","n","g"," ","t","h",
          "ị"," ","t","r","ư","ờ","n","g"," ","l","a","o"," ","d-","ộ","n","g",","," ","c","á",
          "c"," ","n","g","à","n","h"," ","n","g","h","ề"," ","c","ó"," ","t","r","i","ể","n"," ",
          "v","ọ","n","g"," ","v","à"," ","c","á","c","h"," ","t","h","í","c","h"," ","ứ","n","g",
          " ","v","ớ","i"," ","t","h","a","y"," ","d-","ổ","i",".">> ]
  >>

\* what a live Firecrawl search can answer with: nothing, or one page
liveResults ==
  << [ title |-> <<"F","P","T"," ","n","e","w","s">>,
       url |-> "https://live.example/fpt-news",
       snippet |-> <<"a","d","m","i","s","s","i","o","n","s"," ","o","p","e","n">> ] >>

FirecrawlAnswers == { << >>, liveResults }

\* the outcomes of firecrawlApp.search: an answer, or an exception
FirecrawlOutcomes ==
  [ok : {TRUE}, results : FirecrawlAnswers] \cup [ok : {FALSE}, results : {<< >>}]

\* String.prototype.split(' ')
RECURSIVE SplitOnSpace(_)
SplitOnSpace(s) ==
  IF \A i \in 1..Len(s) : s[i] # " " THEN <<s>>
  ELSE LET i == CHOOSE k \in 1..Len(s) : s[k] = " " /\ \A j \in 1..(k - 1) : s[j] # " "
       IN <<SubSeq(s, 1, i - 1)>> \o SplitOnSpace(SubSeq(s, i + 1, Len(s)))

searchCareerKeywords ==
  << <<"n","g","h","ề"," ","n","g","h","i","ệ","p">>, <<"t","ư"," ","v","ấ","n">>,
     <<"v","i","ệ","c"," ","l","à","m">>, <<"c","a","r","e","e","r">>, <<"j","o","b">>,
     <<"c","ô","n","g"," ","v","i","ệ","c">>, <<"c","h","u","y","ê","n"," ","m","ô","n">>,
     <<"k","ỹ"," ","n","a(","n","g">>, <<"s","k","i","l","l">> >>

buildSearchQuery(query) ==
  IF \E j \in 1..Len(searchCareerKeywords) :
       Includes(toLowerCase(query), toLowerCase(searchCareerKeywords[j]))
  THEN query \o <<" ","t","ư"," ","v","ấ","n"," ","n","g","h","ề"," ","n","g","h","i","ệ","p",
                  " ","2","0","2","4">>
  ELSE query

hasCommonKeywords(query, content) ==
  LET queryWords == SelectSeq(SplitOnSpace(query), LAMBDA word : Len(word) > 2)
      contentWords == SplitOnSpace(content)
  IN \E a \in 1..Len(queryWords) : \E b \in 1..Len(contentWords) :
       \/ Includes(contentWords[b], queryWords[a])
       \/ Includes(queryWords[a], contentWords[b])

isRelevantToQuery(result, query) ==
  LET queryLower == toLowerCase(query)
      titleLower == toLowerCase(result.title)
      snippetLower == toLowerCase(result.snippet)
  IN \/ Includes(titleLower, queryLower)
     \/ Includes(snippetLower, queryLower)
     \/ hasCommonKeywords(queryLower, titleLower \o <<" ">> \o snippetLower)

\* Array.prototype.slice(0, n)
SliceFirst(s, n) == SubSeq(s, 1, IF Len(s) < n THEN Len(s) ELSE n)

\* Array.prototype.slice(-n) for n >= 0; -0 is 0, so slice(-0) is the whole array
SliceLast(s, n) ==
  IF n = 0 THEN s ELSE SubSeq(s, IF Len(s) > n THEN Len(s) - n + 1 ELSE 1, Len(s))

MockResultLimit == 3

getMockSearchResults(query) ==
  [ results |->
      SliceFirst(SelectSeq(mockResults, LAMBDA result : isRelevantToQuery(result, query)),
                 MockResultLimit),
    searchQuery |-> query ]

\* searchWeb, given what firecrawlApp.search does when it is called; threw tells
\* whether the call ends in an exception
searchWeb(query, firecrawl) ==
  LET searchQuery == buildSearchQuery(query) IN
  IF firecrawlApp
  THEN IF firecrawl.ok
       THEN [threw |-> FALSE, results |-> firecrawl.results, searchQuery |-> searchQuery]
       ELSE [threw |-> FALSE] @@ getMockSearchResults(query)
  ELSE [threw |-> FALSE] @@ getMockSearchResults(searchQuery)

\* the result record behind a url of mockResults or liveResults
webResultOf(url) ==
  LET all == mockResults \o liveResults
  IN all[CHOOSE i \in 1..Len(all) : all[i].url = url]

extractKeyInformation(results) ==
  [ combinedContent |->
      Join([i \in 1..Len(results) |->
              <<"*","*">> \o results[i].title \o <<"*","*","\n">> \o results[i].snippet],
           <<"\n","\n">>),
    sources |-> [i \in 1..Len(results) |-> results[i].url] ]

(***************************************************************************)
(* FeedbackService: conversations, feedback log and learned answers.       *)
(***************************************************************************)
\* Map.get(key) || []
MapGet(map, key) == IF key \in DOMAIN map THEN map[key] ELSE << >>

\* Map.set(key, value)
MapSet(map, key, value) ==
  [k \in (DOMAIN map) \cup {key} |-> IF k = key THEN value ELSE map[k]]

\* getConversation(id).messages: the session is created on first reference
getConversation(convs, conversationId) ==
  IF conversationId \in DOMAIN convs THEN convs ELSE MapSet(convs, conversationId, << >>)

\* addMessage: metadata holds the fields that are not undefined
addMessage(convs, conversationId, role, content, metadata) ==
  LET created == getConversation(convs, conversationId)
  IN MapSet(created, conversationId,
            Append(created[conversationId], [role |-> role, content |-> content] @@ metadata))

\* a context read from the default session whatever the id
getConversationContextShared(convs, conversationId, maxMessages) ==
  IF "default" \notin DOMAIN convs THEN << >>
  ELSE LET messages == SliceLast(convs["default"], maxMessages)
       IN [i \in 1..Len(messages) |->
             [k \in (DOMAIN messages[i]) \ {"sources"} |-> messages[i][k]]]

\* getConversationContext: the last maxMessages turns, each reduced to role,
\* content and isCareerRelated
getConversationContext(convs, conversationId, maxMessages) ==
  IF conversationId \notin DOMAIN convs THEN << >>
  ELSE LET messages == SliceLast(convs[conversationId], maxMessages)
       IN [i \in 1..Len(messages) |->
             [k \in (DOMAIN messages[i]) \ {"sources"} |-> messages[i][k]]]

Digits == {"0","1","2","3","4","5","6","7","8","9"}

\* \w of a JavaScript regular expression without the u flag
WordChars ==
  Digits \cup {"_"} \cup {UpperChars[i] : i \in 1..26} \cup {LowerChars[i] : i \in 1..26}

\* \s
SpaceChars == {" ", "\n", "\t"}

\* \b at the gap before position i of s
WordBoundary(s, i) ==
  LET before == i > 1 /\ i - 1 <= Len(s) /\ s[i - 1] \in WordChars
      after == i >= 1 /\ i <= Len(s) /\ s[i] \in WordChars
  IN before # after

\* s has k at position i
StartsAt(s, i, k) == i + Len(k) - 1 <= Len(s) /\ SubSeq(s, i, i + Len(k) - 1) = k

\* the length of the longest run of characters of set from position i of s
RECURSIVE RunLength(_, _, _)
RunLength(s, i, set) ==
  IF i <= Len(s) /\ s[i] \in set THEN 1 + RunLength(s, i + 1, set) ELSE 0

NumberToken == <<"N","U","M","B","E","R">>

UserToken == <<"U","S","E","R">>

CompanyToken == <<"C","O","M","P","A","N","Y">>

\* .replace(/[0-9]+/g, 'NUMBER')
RECURSIVE ReplaceNumbers(_, _)
ReplaceNumbers(s, i) ==
  IF i > Len(s) THEN << >>
  ELSE LET n == RunLength(s, i, Digits)
       IN IF n > 0 THEN NumberToken \o ReplaceNumbers(s, i + n)
          ELSE <<s[i]>> \o ReplaceNumbers(s, i + 1)

\* the alternatives of the two regular expressions, character by character as the
\* source file holds them
pronouns ==
  << <<"t","v/","¥","i">>, <<"m","v/","¨","n","h">>, <<"e","m">>, <<"a","n","h">>, <<"c","h","·","ª","ã">> >>

\* \b(alternatives)\b matches at position i of s
WordMatchAt(s, i, alternatives) ==
  { j \in 1..Len(alternatives) :
      /\ WordBoundary(s, i)
      /\ StartsAt(s, i, alternatives[j])
      /\ WordBoundary(s, i + Len(alternatives[j])) }

\* .replace(/\b(pronouns)\b/g, 'USER')
RECURSIVE ReplacePronouns(_, _)
ReplacePronouns(s, i) ==
  IF i > Len(s) THEN << >>
  ELSE LET hits == WordMatchAt(s, i, pronouns)
       IN IF hits # {}
          THEN LET j == CHOOSE j \in hits : \A k \in hits : j <= k
               IN UserToken \o ReplacePronouns(s, i + Len(pronouns[j]))
          ELSE <<s[i]>> \o ReplacePronouns(s, i + 1)

companyWords ==
  << <<"c","v/","¥","n","g"," ","t","y">>,
     <<"d","o","a","n","h"," ","n","g","h","i","·","ª","á","p">>,
     <<"t","·","ª","ï"," ","c","h","·","ª","©","c">> >>

\* the length of the match of \b(companyWords)\s+\w+ at position i, or 0
CompanyMatchLength(s, i) ==
  LET hits == { j \in 1..Len(companyWords) :
                  WordBoundary(s, i) /\ StartsAt(s, i, companyWords[j]) }
  IN IF hits = {} THEN 0
     ELSE LET j == CHOOSE j \in hits : \A k \in hits : j <= k
              afterWord == i + Len(companyWords[j])
              spaces == RunLength(s, afterWord, SpaceChars)
              word == RunLength(s, afterWord + spaces, WordChars)
          IN IF spaces > 0 /\ word > 0 THEN Len(companyWords[j]) + spaces + word ELSE 0

\* .replace(/\b(companyWords)\s+\w+/g, 'COMPANY')
RECURSIVE ReplaceCompanies(_, _)
ReplaceCompanies(s, i) ==
  IF i > Len(s) THEN << >>
  ELSE LET n == CompanyMatchLength(s, i)
       IN IF n > 0 THEN CompanyToken \o ReplaceCompanies(s, i + n)
          ELSE <<s[i]>> \o ReplaceCompanies(s, i + 1)

\* String.prototype.trim
RECURSIVE trim(_)
trim(s) ==
  IF Len(s) = 0 THEN s
  ELSE IF s[1] \in SpaceChars THEN trim(Tail(s))
  ELSE IF s[Len(s)] \in SpaceChars THEN trim(SubSeq(s, 1, Len(s) - 1))
  ELSE s

extractQuestionPattern(question) ==
  trim(ReplaceCompanies(ReplacePronouns(ReplaceNumbers(toLowerCase(question), 1), 1), 1))

\* a learning step that keeps only the newest answer of a pattern
learnFromPositiveFeedbackOverwrite(learning, feedback) ==
  MapSet(learning, extractQuestionPattern(feedback.question), <<feedback.answer>>)

learnFromPositiveFeedback(learning, feedback) ==
  LET questionPattern == extractQuestionPattern(feedback.question)
  IN MapSet(learning, questionPattern,
            Append(MapGet(learning, questionPattern), feedback.answer))

getLearnedResponses(learning, question) ==
  MapGet(learning, extractQuestionPattern(question))

\* statistics that count a record as general chat only when it is not positive
getFeedbackStatsRatedGeneral(fbs) ==
  LET Count(P(_)) == Len(SelectSeq(fbs, P))
  IN [ total |-> Len(fbs),
       positive |-> Count(LAMBDA f : f.rating = "positive"),
       negative |-> Count(LAMBDA f : f.rating = "negative"),
       neutral |-> Count(LAMBDA f : f.rating = "neutral"),
       careerRelated |-> Count(LAMBDA f : f.isCareerRelated),
       generalChat |-> Count(LAMBDA f : ~f.isCareerRelated /\ f.rating # "positive") ]

\* getFeedbackStats: stats[feedback.rating]++ and the grounded/general split
getFeedbackStats(fbs) ==
  LET Count(P(_)) == Len(SelectSeq(fbs, P))
  IN [ total |-> Len(fbs),
       positive |-> Count(LAMBDA f : f.rating = "positive"),
       negative |-> Count(LAMBDA f : f.rating = "negative"),
       neutral |-> Count(LAMBDA f : f.rating = "neutral"),
       careerRelated |-> Count(LAMBDA f : f.isCareerRelated),
       generalChat |-> Count(LAMBDA f : ~f.isCareerRelated) ]

(***************************************************************************)
(* GeminiService: the generation calls.  The texts the model can answer    *)
(* with, and the canned replies of generateMockGeneralResponse, are        *)
(* abridged to one token each.                                             *)
(***************************************************************************)
\* texts the generation model can answer with, before trim()
AnswerTexts == { <<"A","1">>, <<" ","A","2","\n">> }

\* the outcomes of model.generateContent: a text, or an exception
GenerationOutcomes ==
  [ok : {TRUE}, text : AnswerTexts] \cup [ok : {FALSE}, text : {<< >>}]

mockGreeting == <<"[Xin chao! Toi la tro ly AI cua ban ...]">>

mockHowAreYou == <<"[Cam on ban da hoi! Toi dang hoat dong tot ...]">>

mockThanks == <<"[Khong co gi! Toi rat vui duoc giup do ban ...]">>

mockWeather == <<"[Toi khong the kiem tra thoi tiet hien tai ...]">>

mockTime == <<"[Toi khong the xem gio hien tai ...]">>

generateMockGeneralResponse(question) ==
  LET questionLower == toLowerCase(question) IN
  IF SomeIncluded(greetingWords, questionLower) THEN mockGreeting
  ELSE IF SomeIncluded(howAreYouWords, questionLower) THEN mockHowAreYou
  ELSE IF SomeIncluded(thanksWords, questionLower) THEN mockThanks
  ELSE IF SomeIncluded(weatherWords, questionLower) THEN mockWeather
  ELSE IF SomeIncluded(timeWords, questionLower) THEN mockTime
  ELSE <<"[Toi hieu ban dang hoi ve \"">> \o question \o <<"\" ...]">>

\* generateAnswer with a custom prompt, given what generateContent does
generateAnswer(question, context, customPrompt, generation) ==
  IF generation.ok
  THEN [threw |-> FALSE, text |-> trim(generation.text)]
  ELSE [threw |-> TRUE, text |-> << >>]

\* generateGeneralResponse, given what generateContent does
generateGeneralResponse(question, generation) ==
  IF generation.ok
  THEN [threw |-> FALSE, text |-> trim(generation.text)]
  ELSE [threw |-> FALSE, text |-> generateMockGeneralResponse(question)]

(***************************************************************************)
(* PineconeService.similaritySearch: matches as ingestDocuments stored     *)
(* them, metadata { content, source }, best score first.                   *)
(***************************************************************************)
\* the chunks of the index: two of a.pdf and one of b.pdf
Chunks ==
  { [id |-> "a.pdf-0", metadata |-> [content |-> <<"c","0">>, source |-> "a.pdf"]],
    [id |-> "a.pdf-1", metadata |-> [content |-> <<"c","1">>, source |-> "a.pdf"]],
    [id |-> "b.pdf-0", metadata |-> [content |-> <<"c","2">>, source |-> "b.pdf"]] }

\* scores in hundredths: at and around the two thresholds
Scores == {5, 8, 15, 20, 40, 90}

Matches == { [id |-> c.id, score |-> s, metadata |-> c.metadata] : c \in Chunks, s \in Scores }

\* the answers of index.query: at most n matches, no vector twice, best score first
RankedMatches(n) ==
  UNION { { m \in [1..k -> Matches] :
              /\ \A i, j \in 1..k : i < j => m[i].score >= m[j].score
              /\ \A i, j \in 1..k : i # j => m[i].id # m[j].id } : k \in 0..n }
(***************************************************************************)
(* UserPreferencesService: one instance in the browser, one on the server. *)
(***************************************************************************)
\* the labels of traitDefinitions, by trait id (two of the six traits)
traitDefinitions ==
  ( <<"f","r","i","e","n","d","l","y">> :> <<"t","h","â","n"," ","t","h","i","ệ","n">> )
  @@ ( <<"c","o","n","c","i","s","e">> :> <<"s","ú","c"," ","t","í","c","h">> )

\* the fixed texts of getUserContext and getPersonalityInstruction
preferenceTexts ==
  [ header |->
      <<"\n","T","H","Ô","N","G"," ","T","I","N"," ","H","Ọ","C"," ","V","I","Ê","N"," ","C","Ầ",
        "N"," ","T","Ư"," ","V","Ấ","N",":","\n">>,
    name |->
      <<"-"," ","T","ê","n",":"," ">>,
    occupation |->
      <<"-"," ","H","i","ệ","n"," ","t","ạ","i",":"," ">>,
    traits |->
      <<"-"," ","P","h","o","n","g"," ","c","á","c","h"," ","t","ư"," ","v","ấ","n"," ","m","o",
        "n","g"," ","m","u","ố","n",":"," ">>,
    additionalInfo |->
      <<"-"," ","T","h","ô","n","g"," ","t","i","n"," ","b","ổ"," ","s","u","n","g",":"," ">>,
    guide |->
      <<"\n","H","ư","ớ","n","g"," ","d","ẫ","n",":"," ","D","ự","a"," ","t","r","ê","n"," ","t",
        "h","ô","n","g"," ","t","i","n"," ","t","r","ê","n"," ","d-","ể"," ","t","ư"," ","v","ấ",
        "n"," ","p","h","ù"," ","h","ợ","p"," ","v","ề"," ","c","á","c"," ","n","g","à","n","h",
        " ","h","ọ","c"," ","t","ạ","i"," ","F","P","T"," ","S","c","h","o","o","l"," ","v","à",
        " ","d-","ị","n","h"," ","h","ư","ớ","n","g"," ","n","g","h","ề"," ","n","g","h","i","ệ",
        "p"," ","c","ô","n","g"," ","n","g","h","ệ",".","\n">>,
    style |->
      <<"H","ã","y"," ","t","r","ả"," ","l","ờ","i"," ","t","h","e","o"," ","p","h","o","n","g",
        " ","c","á","c","h",":"," ">>,
    styleEnd |->
      <<"."," ","T","h","ể"," ","h","i","ệ","n"," ","n","h","ữ","n","g"," ","d-","ặ","c"," ","d-",
        "i","ể","m"," ","n","à","y"," ","t","r","o","n","g"," ","c","á","c","h"," ","g","i","a",
        "o"," ","t","i","ế","p"," ","c","ủ","a"," ","b","ạ","n",".">> ]

\* getPreferences() of the instance of a process; << >> is null. Only the browser
\* has a window, so only there loadPreferences reads localStorage.
getPreferences(process) ==
  IF preferences[process] # << >> THEN preferences[process]
  ELSE IF process = "browser" THEN localStorage["chatbot-preferences"]
  ELSE << >>

\* prefs.traits mapped to their labels and joined with ', '
traitLabels(traits) ==
  Join([i \in 1..Len(traits) |->
          IF traits[i] \in DOMAIN traitDefinitions THEN traitDefinitions[traits[i]]
          ELSE traits[i]], <<",", " ">>)

getUserContext(prefs) ==
  IF prefs = << >> THEN << >>
  ELSE LET p == prefs[1]
           line(label, text) == IF Len(text) > 0 THEN label \o text \o <<"\n">> ELSE << >>
       IN preferenceTexts.header
            \o line(preferenceTexts.name, p.name)
            \o line(preferenceTexts.occupation, p.occupation)
            \o line(preferenceTexts.traits, traitLabels(p.traits))
            \o line(preferenceTexts.additionalInfo, p.additionalInfo)
            \o preferenceTexts.guide

getPersonalityInstruction(prefs) ==
  IF prefs = << >> \/ Len(prefs[1].traits) = 0 THEN defaultPersonalityInstruction
  ELSE preferenceTexts.style \o traitLabels(prefs[1].traits) \o preferenceTexts.styleEnd

\* savePreferences in the browser (the preferences dialog)
SavePreferences(prefs) ==
  /\ localStorage' = [localStorage EXCEPT !["chatbot-preferences"] = <<prefs>>]
  /\ preferences' = [preferences EXCEPT !["browser"] = <<prefs>>]
  /\ UNCHANGED <<conversations, feedbacks, learningData, firecrawlApp, req, calls, cq, cres,
               http, page, index, ingest>>


(***************************************************************************)
(* RAGService.processCareerQuestion and buildContextualCareerPrompt.       *)
(***************************************************************************)
\* result.score > 0.15
HighThreshold == 15

\* result.score > 0.05
LowThreshold == 5

\* similaritySearch(questionEmbedding, 8)
TopK == 8

\* getConversationContext(conversationId, 5) of the grounded route
CareerContextSize == 5

\* getConversationContext(conversationId, 3) of the general route
GeneralContextSize == 3

\* a fraction num/den; confidences are compared as fractions
Rat(n, d) == [num |-> n, den |-> d]

RatEq(a, b) == a.num * b.den = b.num * a.den

RatLeq(a, b) == a.num * b.den <= b.num * a.den

NoFields == [x \in {} |-> x]

\* a high tier that also admits a score equal to the threshold
relevantResultsInclusive(searchResults) ==
  SelectSeq(searchResults, LAMBDA result : result.score >= HighThreshold)

relevantResults(searchResults) ==
  SelectSeq(searchResults, LAMBDA result : result.score > HighThreshold)

anyResults(searchResults) ==
  SelectSeq(searchResults, LAMBDA result : result.score > LowThreshold)

\* result.metadata?.text || ''
metadataText(result) ==
  IF "text" \in DOMAIN result.metadata THEN result.metadata.text ELSE << >>

\* result.metadata?.source || 'unknown'
metadataSource(result) ==
  IF "source" \in DOMAIN result.metadata /\ result.metadata.source # ""
  THEN result.metadata.source ELSE "unknown"

\* [...new Set(list)]
RECURSIVE Dedupe(_)
Dedupe(list) ==
  IF Len(list) = 0 THEN << >>
  ELSE LET front == Dedupe(SubSeq(list, 1, Len(list) - 1))
           last == list[Len(list)]
       IN IF \E i \in 1..Len(front) : front[i] = last THEN front ELSE Append(front, last)

\* source labels without the set: one label per passage
sourcesOfWithDuplicates(results) ==
  SelectSeq([i \in 1..Len(results) |-> metadataSource(results[i])],
            LAMBDA source : source # "unknown")

sourcesOf(results) ==
  Dedupe(SelectSeq([i \in 1..Len(results) |-> metadataSource(results[i])],
                   LAMBDA source : source # "unknown"))

contextTextOf(results) ==
  Join([i \in 1..Len(results) |-> metadataText(results[i])], <<"\n","\n">>)

\* the combinedContext handed to the prompt builder, by the branch taken
combinedContextOf(searchResults, webContext) ==
  LET relevant == relevantResults(searchResults)
      any == anyResults(searchResults)
      admitted == IF Len(relevant) > 0 THEN relevant ELSE any
  IN IF Len(admitted) > 0
     THEN IF Len(webContext) > 0
          THEN contextTextOf(admitted) \o additionalWebLabel \o webContext
          ELSE contextTextOf(admitted)
     ELSE IF Len(webContext) > 0
          THEN webOnlyLabel \o webContext \o <<"\n","\n">>
          ELSE << >>

\* a history filter that keeps every turn
NotGeneralTurnKeepsAll(msg) == TRUE

\* msg.isCareerRelated !== false
NotGeneralTurn(msg) == ~("isCareerRelated" \in DOMAIN msg /\ msg.isCareerRelated = FALSE)

HistoryTurns == 3

historyLine(msg) ==
  (IF msg.role = "user" THEN userLabel ELSE assistantLabel) \o <<":"," ">> \o msg.content

\* the sections of the prompt after its fixed header; an empty section is left out.
\* The prompt is built by the server, from the server's preferences instance.
buildContextualCareerPrompt(question, conversationContext, documentContext) ==
  LET kept == SliceLast(SelectSeq(conversationContext, NotGeneralTurn), HistoryTurns)
  IN [ userContext |-> getUserContext(getPreferences("server")),
       personalityInstruction |-> getPersonalityInstruction(getPreferences("server")),
       history |-> Join([i \in 1..Len(kept) |-> historyLine(kept[i])], <<"\n">>),
       documentContext |-> documentContext,
       question |-> question ]

\* relevantResults.reduce((sum, result) => sum + result.score, 0)
RECURSIVE SumScores(_)
SumScores(results) ==
  IF Len(results) = 0 THEN 0 ELSE Head(results).score + SumScores(Tail(results))

\* a high-tier confidence that adds the web boost without the 0.98 cap
highConfidenceUncapped(relevant, webSources) ==
  LET n == Len(relevant)
      sum == SumScores(relevant)
      capped == IF sum + 20 * n < 95 * n THEN sum + 20 * n ELSE 95 * n
  IN Rat(IF Len(webSources) > 0 THEN capped + 10 * n ELSE capped, 100 * n)

\* the confidence of a high-tier answer: min(0.95, avgScore + 0.2), and
\* min(0.98, that + 0.1) with web sources, as a fraction over 100 * n
highConfidence(relevant, webSources) ==
  LET n == Len(relevant)
      sum == SumScores(relevant)
      capped == IF sum + 20 * n < 95 * n THEN sum + 20 * n ELSE 95 * n
      boosted == IF capped + 10 * n < 98 * n THEN capped + 10 * n ELSE 98 * n
  IN Rat(IF Len(webSources) > 0 THEN boosted ELSE capped, 100 * n)

\* what processCareerQuestion returns once generateAnswer has returned answer;
\* tier and passages name the branch taken and the results it used
careerResult(searchResults, webSources, usedWebSearch, answer) ==
  LET relevant == relevantResults(searchResults)
      any == anyResults(searchResults)
  IN IF Len(relevant) = 0
     THEN IF Len(any) > 0
          THEN [ answer |-> answer, sources |-> sourcesOf(any), webSources |-> webSources,
                 hasRelevantContent |-> TRUE,
                 confidence |-> IF Len(webSources) > 0 THEN Rat(65, 100) ELSE Rat(55, 100),
                 usedWebSearch |-> usedWebSearch, tier |-> "low", passages |-> any ]
          ELSE [ answer |-> answer, sources |-> <<"general_knowledge">>,
                 webSources |-> webSources, hasRelevantContent |-> FALSE,
                 confidence |-> IF Len(webSources) > 0 THEN Rat(75, 100) ELSE Rat(60, 100),
                 usedWebSearch |-> usedWebSearch, tier |-> "none", passages |-> << >> ]
     ELSE [ answer |-> answer, sources |-> sourcesOf(relevant), webSources |-> webSources,
            hasRelevantContent |-> TRUE, confidence |-> highConfidence(relevant, webSources),
            usedWebSearch |-> usedWebSearch, tier |-> "high", passages |-> relevant ]

\* a learned-response return that is marked like a generated answer
learnedResultUnmarked(answer) ==
  [ answer |-> answer, sources |-> <<"general_knowledge">>, webSources |-> << >>,
    hasRelevantContent |-> TRUE, confidence |-> Rat(60, 100), usedWebSearch |-> FALSE,
    tier |-> "learned", passages |-> << >> ]

\* the learned-response return of processCareerQuestion
learnedResult(answer) ==
  [ answer |-> answer, sources |-> <<"learned_response">>, webSources |-> << >>,
    hasRelevantContent |-> TRUE, confidence |-> Rat(90, 100), usedWebSearch |-> FALSE,
    tier |-> "learned", passages |-> << >> ]

\* the locals of askQuestion after the general route
generalResult(answer, webSources, usedWebSearch) ==
  [ answer |-> answer, sources |-> << >>, webSources |-> webSources,
    hasRelevantContent |-> FALSE, confidence |-> Rat(80, 100),
    usedWebSearch |-> usedWebSearch, tier |-> "general", passages |-> << >> ]

\* the prompt of the general route
contextualQuestionOf(question, conversationContext, withWeb, webContext) ==
  LET fullContext == defaultPersonalityInstruction
      recent == SliceLast(conversationContext, 2)
      recentContext ==
        Join([i \in 1..Len(recent) |->
                (IF recent[i].role = "user" THEN <<"u","s","e","r">>
                 ELSE <<"a","s","s","i","s","t","a","n","t">>)
                \o <<":"," ">> \o recent[i].content], <<"\n">>)
      web == IF withWeb THEN generalWebLabel \o webContext ELSE << >>
  IN IF Len(conversationContext) > 0
     THEN fullContext \o generalContextLabel \o recentContext \o web
            \o generalCurrentQuestionLabel \o question
     ELSE fullContext \o web \o generalQuestionLabel \o question

(***************************************************************************)
(* RAGService.askQuestion, one action per stretch of code between awaits.  *)
(***************************************************************************)
ConversationIds == {"default", "s2"}

fallbackAnswer ==
  <<"Xin lỗi, tôi d-ang gặp một chút vấn d-ề kỹ thuật. Bạn có thể thử hỏi lại câu hỏi không?">>

\* the value returned by the catch block of askQuestion
fallbackResult ==
  [ answer |-> fallbackAnswer, sources |-> << >>, hasRelevantContent |-> FALSE,
    isCareerRelated |-> FALSE, confidence |-> Rat(10, 100) ]

Requests == 1..NumReq

IdleRequest ==
  [ pc |-> "idle", question |-> << >>, conversationId |-> "", webSearchEnabled |-> FALSE,
    isCareerRelated |-> FALSE, conversationContext |-> << >>, searchResults |-> << >>,
    webSources |-> << >>, usedWebSearch |-> FALSE, inWebTry |-> FALSE,
    inner |-> << >>,      \* what processCareerQuestion or the general route returned
    result |-> << >>,     \* what askQuestion returned
    thrown |-> FALSE,     \* askQuestion ended in an exception
    called |-> << >>,     \* the external calls made, in order
    failed |-> {},        \* the external calls that ended in an exception
    userTurn |-> 0,       \* position of the user turn in the session log
    assistantTurn |-> 0 ] \* position of the assistant turn in the session log, if any

\* webInfo.combinedContent of the results behind webSources
webContextOf(webSources) ==
  extractKeyInformation([i \in 1..Len(webSources) |-> webResultOf(webSources[i])]).combinedContent

\* a catch block that throws the error again
catchRethrows(q) ==
  [q EXCEPT !.pc = "done", !.thrown = TRUE]

\* the catch block of askQuestion
catch(q) ==
  [q EXCEPT !.pc = "done", !.result = <<fallbackResult>>]

\* askQuestion up to its first await
AskQuestion(r, question, conversationId, webSearchEnabled) ==
  /\ req[r].pc = "idle"
  /\ calls' = calls + 1
  /\ LET convs == addMessage(conversations, conversationId, "user", question, NoFields)
         isCareerRelated == isCareerRelatedQuestion(question)
         learnedResponses == getLearnedResponses(learningData, question)
         q == [IdleRequest EXCEPT
                 !.question = question, !.conversationId = conversationId,
                 !.webSearchEnabled = webSearchEnabled,
                 !.isCareerRelated = isCareerRelated,
                 !.userTurn = Len(convs[conversationId])]
     IN /\ conversations' = convs
        /\ IF isCareerRelated
           THEN IF Len(learnedResponses) > 0
                THEN \E k \in 1..Len(learnedResponses) :
                       req' = [req EXCEPT ![r] =
                                 [q EXCEPT !.pc = "respond",
                                           !.inner = <<learnedResult(learnedResponses[k])>>]]
                ELSE req' = [req EXCEPT ![r] =
                               [q EXCEPT !.pc = "embedding",
                                         !.called = <<"embedding">>,
                                         !.conversationContext =
                                           getConversationContext(convs, conversationId,
                                                                  CareerContextSize)]]
           ELSE IF webSearchEnabled
                THEN req' = [req EXCEPT ![r] =
                               [q EXCEPT !.pc = "generalWebSearch",
                                         !.called = <<"web">>,
                                         !.inWebTry = TRUE,
                                         !.conversationContext =
                                           getConversationContext(convs, conversationId,
                                                                  GeneralContextSize)]]
                ELSE IF Len(learnedResponses) > 0
                     THEN \E k \in 1..Len(learnedResponses) :
                            req' = [req EXCEPT ![r] =
                                      [q EXCEPT !.pc = "respond",
                                                !.conversationContext =
                                                  getConversationContext(convs, conversationId,
                                                                         GeneralContextSize),
                                                !.inner = <<generalResult(learnedResponses[k],
                                                                         << >>, FALSE)>>]]
                     ELSE req' = [req EXCEPT ![r] =
                                    [q EXCEPT !.pc = "generalGeneration",
                                              !.called = <<"generation">>,
                                              !.conversationContext =
                                                getConversationContext(convs, conversationId,
                                                                       GeneralContextSize)]]
  /\ UNCHANGED <<feedbacks, learningData, firecrawlApp, cq, cres>>

\* an embedding return that starts the web search together with the index query
EmbeddingReturnsWebFirst(r, ok) ==
  /\ req[r].pc = "embedding"
  /\ req' = [req EXCEPT ![r] =
               IF ok THEN [@ EXCEPT !.pc = "index",
                                    !.called = IF req[r].webSearchEnabled
                                               THEN @ \o <<"web", "index">>
                                               ELSE Append(@, "index")]
               ELSE catch([@ EXCEPT !.failed = @ \cup {"embedding"}])]
  /\ UNCHANGED <<conversations, feedbacks, learningData, firecrawlApp, calls, cq, cres, extVars>>

\* generateEmbedding returns or throws
EmbeddingReturns(r, ok) ==
  /\ req[r].pc = "embedding"
  /\ req' = [req EXCEPT ![r] =
               IF ok THEN [@ EXCEPT !.pc = "index", !.called = Append(@, "index")]
               ELSE catch([@ EXCEPT !.failed = @ \cup {"embedding"}])]
  /\ UNCHANGED <<conversations, feedbacks, learningData, firecrawlApp, calls, cq, cres, extVars>>

\* similaritySearch returns its matches or throws
IndexReturns(r, ok, matches) ==
  /\ req[r].pc = "index"
  /\ req' = [req EXCEPT ![r] =
               IF ~ok THEN catch([@ EXCEPT !.failed = @ \cup {"index"}])
               ELSE IF @.webSearchEnabled
                    THEN [@ EXCEPT !.pc = "webSearch", !.searchResults = matches,
                                   !.called = Append(@, "web")]
                    ELSE [@ EXCEPT !.pc = "generation", !.searchResults = matches,
                                   !.called = Append(@, "generation")]]
  /\ UNCHANGED <<conversations, feedbacks, learningData, firecrawlApp, calls, cq, cres, extVars>>

\* searchWeb returns on the grounded route; an exception would be caught and the
\* turn would go on without web content
WebSearchReturns(r, firecrawl) ==
  /\ req[r].pc = "webSearch"
  /\ LET webResults == searchWeb(req[r].question, firecrawl)
         webInfo == extractKeyInformation(webResults.results)
         q == [req[r] EXCEPT !.pc = "generation", !.called = Append(@, "generation"),
                             !.failed = IF firecrawlApp /\ ~firecrawl.ok
                                        THEN @ \cup {"web"} ELSE @]
     IN req' = [req EXCEPT ![r] =
                  IF webResults.threw THEN q
                  ELSE [q EXCEPT !.webSources = webInfo.sources, !.usedWebSearch = TRUE]]
  /\ UNCHANGED <<conversations, feedbacks, learningData, firecrawlApp, calls, cq, cres, extVars>>

\* generateAnswer returns or throws; processCareerQuestion returns to askQuestion
GenerationReturns(r, generation) ==
  /\ req[r].pc = "generation"
  /\ LET q == req[r]
         combinedContext == combinedContextOf(q.searchResults, webContextOf(q.webSources))
         contextualPrompt ==
           buildContextualCareerPrompt(q.question, q.conversationContext, combinedContext)
         answer == generateAnswer(q.question, combinedContext, contextualPrompt, generation)
     IN req' = [req EXCEPT ![r] =
                  IF answer.threw THEN catch([q EXCEPT !.failed = @ \cup {"generation"}])
                  ELSE [q EXCEPT !.pc = "respond",
                                 !.inner = <<careerResult(q.searchResults, q.webSources,
                                                          q.usedWebSearch, answer.text)>>]]
  /\ UNCHANGED <<conversations, feedbacks, learningData, firecrawlApp, calls, cq, cres, extVars>>

\* searchWeb returns on the general route; an exception would be caught and the
\* reply generated without web content
GeneralWebSearchReturns(r, firecrawl) ==
  /\ req[r].pc = "generalWebSearch"
  /\ LET webResults == searchWeb(req[r].question, firecrawl)
         webInfo == extractKeyInformation(webResults.results)
         q == [req[r] EXCEPT !.pc = "generalGeneration", !.called = Append(@, "generation"),
                             !.failed = IF firecrawlApp /\ ~firecrawl.ok
                                        THEN @ \cup {"web"} ELSE @]
     IN req' = [req EXCEPT ![r] =
                  IF webResults.threw THEN [q EXCEPT !.inWebTry = FALSE]
                  ELSE [q EXCEPT !.webSources = webInfo.sources]]
  /\ UNCHANGED <<conversations, feedbacks, learningData, firecrawlApp, calls, cq, cres, extVars>>

\* generateGeneralResponse returns; an exception inside the try block of
\* processGeneralQuestionWithWebSearch would start the reply without web content,
\* any other would reach the catch block of askQuestion
GeneralGenerationReturns(r, generation) ==
  /\ req[r].pc = "generalGeneration"
  /\ LET q == [req[r] EXCEPT !.failed = IF generation.ok THEN @ ELSE @ \cup {"generation"}]
         contextualQuestion ==
           contextualQuestionOf(q.question, q.conversationContext, q.inWebTry,
                                webContextOf(q.webSources))
         answer == generateGeneralResponse(contextualQuestion, generation)
     IN req' = [req EXCEPT ![r] =
                  IF answer.threw
                  THEN IF q.inWebTry
                       THEN [q EXCEPT !.inWebTry = FALSE, !.webSources = << >>,
                                      !.called = Append(@, "generation")]
                       ELSE catch(q)
                  ELSE [q EXCEPT !.pc = "respond",
                                 !.inner = <<generalResult(answer.text, q.webSources,
                                                           q.webSearchEnabled)>>]]
  /\ UNCHANGED <<conversations, feedbacks, learningData, firecrawlApp, calls, cq, cres, extVars>>

\* askQuestion after its route returned: the assistant turn and the result
Respond(r) ==
  /\ req[r].pc = "respond"
  /\ LET q == req[r]
         inner == q.inner[1]
         convs == addMessage(conversations, q.conversationId, "assistant", inner.answer,
                             [isCareerRelated |-> q.isCareerRelated]
                               @@ (IF Len(inner.sources) > 0
                                   THEN [sources |-> inner.sources] ELSE NoFields))
     IN /\ conversations' = convs
        /\ req' = [req EXCEPT ![r] =
                     [q EXCEPT !.pc = "done",
                               !.assistantTurn = Len(convs[q.conversationId]),
                               !.result =
                                 << [ answer |-> inner.answer, sources |-> inner.sources,
                                      hasRelevantContent |-> inner.hasRelevantContent,
                                      isCareerRelated |-> q.isCareerRelated,
                                      confidence |-> inner.confidence,
                                      usedWebSearch |-> inner.usedWebSearch ]
                                    @@ (IF Len(inner.webSources) > 0
                                        THEN [webSources |-> inner.webSources]
                                        ELSE NoFields) >>]]
  /\ UNCHANGED <<feedbacks, learningData, firecrawlApp, calls, cq, cres, extVars>>

\* the caller has the result; the slot is free for another call
Return(r) ==
  /\ req[r].pc = "done"
  /\ req' = [req EXCEPT ![r] = IdleRequest]
  /\ UNCHANGED <<conversations, feedbacks, learningData, firecrawlApp, calls, cq, cres, extVars>>

(***************************************************************************)
(* FeedbackService.storeFeedback.                                          *)
(***************************************************************************)
Ratings == {"positive", "negative", "neutral"}

\* feedback records stored in one behaviour
MaxFeedback == 1

StoreFeedback(question, answer, rating, isCareerRelated) ==
  /\ LET newFeedback == [ question |-> question, answer |-> answer, rating |-> rating,
                          isCareerRelated |-> isCareerRelated ]
     IN /\ feedbacks' = Append(feedbacks, newFeedback)
        /\ learningData' = IF rating = "positive"
                           THEN learnFromPositiveFeedback(learningData, newFeedback)
                           ELSE learningData
  /\ UNCHANGED <<conversations, firecrawlApp, req, calls, cq, cres>>
(***************************************************************************)
(* POST /api/ask, one action per stretch of the handler between awaits.    *)
(***************************************************************************)
NoExchange == [stage |-> "none"]

\* the handler up to its first await; the body is what the page sent
PostAsk(r, body) ==
  /\ http[r].stage \in {"none", "responded"}
  /\ req[r].pc = "idle"
  /\ http' = [http EXCEPT ![r] =
                IF Len(body.question) = 0
                THEN [stage |-> "responded", body |-> body, status |-> 400]
                ELSE [stage |-> "isDocumentsIndexed", body |-> body,
                      question |-> body.question,
                      conversationId |-> IF "conversationId" \in DOMAIN body
                                         THEN body.conversationId ELSE "default"]]
  /\ UNCHANGED <<mainVars, cq, cres, preferences, localStorage, page, index, ingest>>

\* isDocumentsIndexed returns: 503 without vectors, else askQuestion starts
IsIndexedReturns(r, statsOk) ==
  /\ http[r].stage = "isDocumentsIndexed"
  /\ IF statsOk /\ Cardinality(index) > 0
     THEN /\ AskQuestion(r, http[r].question, http[r].conversationId, FALSE)
          /\ http' = [http EXCEPT ![r].stage = "askQuestion"]
     ELSE /\ http' = [http EXCEPT ![r] =
                        [stage |-> "responded", body |-> @.body, status |-> 503]]
          /\ UNCHANGED <<mainVars, cq, cres>>
  /\ UNCHANGED <<preferences, localStorage, page, index, ingest>>

\* askQuestion returned or threw: the response is sent
RouteRespond(r) ==
  /\ http[r].stage = "askQuestion"
  /\ req[r].pc = "done"
  /\ http' = [http EXCEPT ![r] =
                IF req[r].thrown
                THEN [stage |-> "responded", body |-> @.body, status |-> 500]
                ELSE LET result == req[r].result[1]
                     IN [stage |-> "responded", body |-> @.body, status |-> 200,
                         data |-> [ answer |-> result.answer, sources |-> result.sources,
                                    hasRelevantContent |-> result.hasRelevantContent,
                                    isCareerRelated |-> result.isCareerRelated,
                                    confidence |-> result.confidence,
                                    conversationId |-> @.conversationId ]]]
  /\ req' = [req EXCEPT ![r] = IdleRequest]
  /\ UNCHANGED <<conversations, feedbacks, learningData, firecrawlApp, calls, cq, cres,
                 preferences, localStorage, page, index, ingest>>
(***************************************************************************)
(* The chat page: handleFeedback and retryPendingFeedback, one action per  *)
(* stretch of code between awaits. A feedback is the record the page posts.*)
(***************************************************************************)
\* no post in flight, the retry loop not running, no feedback given yet
IdlePage == [posts |-> {}, retry |-> [pc |-> "idle"], given |-> {}]

\* handleFeedback up to its fetch
HandleFeedback(feedback) ==
  /\ feedback \notin page.given
  /\ page' = [page EXCEPT !.posts = @ \cup {feedback}, !.given = @ \cup {feedback}]
  /\ UNCHANGED <<mainVars, cq, cres, http, preferences, localStorage, index, ingest>>

\* the fetch of handleFeedback returns: the server stored the feedback, or the post
\* failed and the feedback is pushed onto the pendingFeedback item of localStorage
FeedbackPostReturns(feedback, ok) ==
  /\ feedback \in page.posts
  /\ page' = [page EXCEPT !.posts = @ \ {feedback}]
  /\ IF ok
     THEN /\ StoreFeedback(feedback.question, feedback.answer, feedback.rating,
                           feedback.isCareerRelated)
          /\ UNCHANGED localStorage
     ELSE /\ localStorage' = [localStorage EXCEPT !["pendingFeedback"] = Append(@, feedback)]
          /\ UNCHANGED <<mainVars, cq, cres>>
  /\ UNCHANGED <<http, preferences, index, ingest>>

\* retryPendingFeedback up to its first fetch; with an empty queue it returns at once
RetryPendingFeedback ==
  /\ page.retry.pc = "idle"
  /\ Len(localStorage["pendingFeedback"]) > 0
  /\ page' = [page EXCEPT !.retry = [pc |-> "fetch", i |-> 1, successfulItems |-> {},
                                     pendingFeedback |-> localStorage["pendingFeedback"]]]
  /\ UNCHANGED <<mainVars, cq, cres, http, preferences, localStorage, index, ingest>>

\* a fetch of the retry loop returns; after the last one the queue is written back
RetryPostReturns(ok) ==
  /\ page.retry.pc = "fetch"
  /\ LET retry == page.retry
         feedback == retry.pendingFeedback[retry.i]
         successfulItems == IF ok THEN retry.successfulItems \cup {retry.i}
                            ELSE retry.successfulItems
         kept[n \in 0..Len(retry.pendingFeedback)] ==
           IF n = 0 THEN << >>
           ELSE IF n \in successfulItems THEN kept[n - 1]
           ELSE Append(kept[n - 1], retry.pendingFeedback[n])
         remainingFeedback == kept[Len(retry.pendingFeedback)]
     IN /\ IF ok
           THEN StoreFeedback(feedback.question, feedback.answer, feedback.rating,
                              feedback.isCareerRelated)
           ELSE UNCHANGED <<mainVars, cq, cres>>
        /\ IF retry.i < Len(retry.pendingFeedback)
           THEN /\ page' = [page EXCEPT !.retry.i = @ + 1,
                                        !.retry.successfulItems = successfulItems]
                /\ UNCHANGED localStorage
           ELSE /\ page' = [page EXCEPT !.retry = [pc |-> "idle"]]
                /\ localStorage' =
                     IF successfulItems # {}
                     THEN [localStorage EXCEPT !["pendingFeedback"] = remainingFeedback]
                     ELSE localStorage
  /\ UNCHANGED <<http, preferences, index, ingest>>
(***************************************************************************)
(* POST /api/ingest and RAGService.ingestDocuments, one action per stretch *)
(* of code between awaits.                                                 *)
(***************************************************************************)
IdleIngest == [pc |-> "idle"]

\* vectors per upsert batch (the code's batchSize of 100, scaled to the documents below)
BatchSize == 1

\* what processDocumentsDirectory may return: no chunk, or the chunks of one or two
\* documents; a chunk id ends in a fresh uuid, so it is the id of no stored vector
DocumentChunks ==
  LET a0 == [id |-> "a_chunk_0_u1", content |-> <<"n","0">>, metadata |-> [source |-> "a.docx"]]
      a1 == [id |-> "a_chunk_1_u2", content |-> <<"n","1">>, metadata |-> [source |-> "a.docx"]]
      d0 == [id |-> "d_chunk_0_u3", content |-> <<"n","2">>, metadata |-> [source |-> "d.txt"]]
  IN { << >>, <<a0>>, <<a0, a1>>, <<a0, a1, d0>> }

\* the vector prepared for a chunk (its embedding values are left out)
vectorOf(chunk) ==
  [id |-> chunk.id, metadata |-> [content |-> chunk.content, source |-> chunk.metadata.source]]

\* index.upsert: a vector replaces the one with the same id
upsert(vectors, batch) ==
  { v \in vectors : \A i \in 1..Len(batch) : batch[i].id # v.id }
    \cup { batch[i] : i \in 1..Len(batch) }

\* the route up to its first await
PostIngest(clearIndex) ==
  /\ ingest.pc = "idle"
  /\ ingest' = [pc |-> IF clearIndex THEN "clearIndex" ELSE "processDocuments",
                clearIndex |-> clearIndex,
                before |-> index]   \* the vectors held when the request arrived
  /\ UNCHANGED <<mainVars, cq, cres, http, preferences, localStorage, page, index>>

\* clearIndex returns or throws; the route goes on to ingestDocuments either way
ClearIndexReturns(ok) ==
  /\ ingest.pc = "clearIndex"
  /\ index' = IF ok THEN {} ELSE index
  /\ ingest' = [ingest EXCEPT !.pc = "processDocuments"]
  /\ UNCHANGED <<mainVars, cq, cres, http, preferences, localStorage, page>>

\* processDocumentsDirectory returns; without chunks ingestDocuments throws
ProcessDocumentsReturns(chunks) ==
  /\ ingest.pc = "processDocuments"
  /\ ingest' = IF Len(chunks) = 0 THEN [ingest EXCEPT !.pc = "failed"]
               ELSE [pc |-> "generateEmbeddings", clearIndex |-> ingest.clearIndex,
                     before |-> ingest.before, chunks |-> chunks]
  /\ UNCHANGED <<mainVars, cq, cres, http, preferences, localStorage, page, index>>

\* generateEmbeddings returns or throws
GenerateEmbeddingsReturns(ok) ==
  /\ ingest.pc = "generateEmbeddings"
  /\ ingest' = [ingest EXCEPT !.pc = IF ok THEN "ensureIndexExists" ELSE "failed"]
  /\ UNCHANGED <<mainVars, cq, cres, http, preferences, localStorage, page, index>>

\* ensureIndexExists returns or throws; the vectors are prepared, the first batch is sent
EnsureIndexReturns(ok) ==
  /\ ingest.pc = "ensureIndexExists"
  /\ ingest' =
       IF ok
       THEN [pc |-> "upsert", clearIndex |-> ingest.clearIndex, before |-> ingest.before,
             vectors |-> [i \in 1..Len(ingest.chunks) |-> vectorOf(ingest.chunks[i])],
             i |-> 0]
       ELSE [ingest EXCEPT !.pc = "failed"]
  /\ UNCHANGED <<mainVars, cq, cres, http, preferences, localStorage, page, index>>

\* index.upsert of the batch at offset i returns or throws
UpsertReturns(ok) ==
  /\ ingest.pc = "upsert"
  /\ LET last == IF ingest.i + BatchSize < Len(ingest.vectors)
                 THEN ingest.i + BatchSize ELSE Len(ingest.vectors)
         batch == SubSeq(ingest.vectors, ingest.i + 1, last)
     IN IF ok
        THEN /\ index' = upsert(index, batch)
             /\ ingest' = [ingest EXCEPT !.i = last,
                                         !.pc = IF last < Len(ingest.vectors)
                                                THEN "upsert" ELSE "succeeded"]
        ELSE /\ ingest' = [ingest EXCEPT !.pc = "failed"]
             /\ UNCHANGED index
  /\ UNCHANGED <<mainVars, cq, cres, http, preferences, localStorage, page>>

(***************************************************************************)
(* The classifier on its own, over questions built from a vocabulary.      *)
(***************************************************************************)
ClassifyWords ==
  { <<"f","p","t">>, <<"F","P","T">>, <<"l","a","b">>,
    <<"w","e","a","t","h","e","r">>, <<"W","e","a","t","h","e","r">>,
    <<"t","h","ờ","i"," ","t","i","ế","t">>,
    <<"e","n","t","e","r","t","a","i","n","m","e","n","t">>,
    <<"j","o","b">>, <<"w","h","a","t">>, <<"g","ì">>,
    <<"x","y","z","x","y","z","x","y","z","x","y">>, <<"o","k">> }

RECURSIVE Phrases(_)
\* the questions of at most n vocabulary words, separated by single spaces
Phrases(n) ==
  IF n = 0 THEN { << >> }
  ELSE LET shorter == Phrases(n - 1) IN
       shorter \cup { IF Len(p) = 0 THEN w ELSE p \o <<" ">> \o w :
                        p \in shorter, w \in ClassifyWords }

ClassifyQuestions == Phrases(MaxWords)

\* no session, no feedback, no call in flight; Firecrawl configured or not
InitMain ==
  /\ conversations = NoFields
  /\ feedbacks = << >>
  /\ learningData = NoFields
  /\ firecrawlApp \in BOOLEAN
  /\ req = [r \in Requests |-> IdleRequest]
  /\ calls = 0
  /\ http = [r \in Requests |-> NoExchange]
  /\ preferences = [process \in {"browser", "server"} |-> << >>]
  /\ localStorage = [key \in {"chatbot-preferences", "pendingFeedback"} |-> << >>]
  /\ page = IdlePage
  /\ index = Chunks
  /\ ingest = IdleIngest

InitClassify ==
  /\ InitMain
  /\ firecrawlApp = FALSE
  /\ cq \in ClassifyQuestions
  /\ cres = << >>

Classify ==
  /\ cres = << >>
  /\ cres' = <<isCareerRelatedQuestion(cq)>>
  /\ UNCHANGED <<mainVars, cq, extVars>>

NextClassify == Classify

SpecClassify == InitClassify /\ [][NextClassify]_vars

(***************************************************************************)
(* The system: askQuestion calls one after the other, every external call  *)
(* failing or not, and feedback.  Index answers are one per tier here;     *)
(* RetrievalSpec below draws them from all ranked answers, OverlapSpec     *)
(* lets calls overlap.                                                     *)
(***************************************************************************)
Questions ==
  { <<"n","g","à","n","h"," ","i","t">>, <<"w","e","a","t","h","e","r">> }

\* the answers a user can rate
RatedAnswers == { <<"A","1">> }

\* generateContent answers with one text, or throws
SystemGenerations == { g \in GenerationOutcomes : g.ok => g.text = <<"A","1">> }

\* the feedback users give: a grounded answer liked, a general answer liked, an
\* answer disliked
SystemFeedback ==
  { [question |-> <<"n","g","à","n","h"," ","i","t">>, rating |-> "positive", isCareerRelated |-> TRUE],
    [question |-> <<"w","e","a","t","h","e","r">>, rating |-> "positive", isCareerRelated |-> FALSE],
    [question |-> <<"n","g","à","n","h"," ","i","t">>, rating |-> "negative", isCareerRelated |-> TRUE] }

\* one index answer per tier: nothing, a low match, a high match
TierAnswers ==
  { m \in RankedMatches(1) : \A i \in 1..Len(m) : m[i].id = "a.pdf-0" /\ m[i].score \in {8, 40} }

\* a call takes the lowest free slot
FreeSlot(r) ==
  /\ req[r].pc = "idle"
  /\ \A other \in Requests : other < r => req[other].pc # "idle"

\* no askQuestion call is between its first line and its return
NoCallInFlight == \A r \in Requests : req[r].pc = "idle"

Init ==
  /\ InitMain
  /\ cq = << >>
  /\ cres = << >>

Next ==
  \/ \E r \in Requests, question \in Questions, conversationId \in ConversationIds,
        webSearchEnabled \in BOOLEAN :
       /\ calls < MaxCalls
       /\ NoCallInFlight
       /\ FreeSlot(r)
       /\ AskQuestion(r, question, conversationId, webSearchEnabled)
       /\ UNCHANGED extVars
  \/ \E r \in Requests, ok \in BOOLEAN : EmbeddingReturns(r, ok)
  \/ \E r \in Requests : IndexReturns(r, FALSE, << >>)
  \/ \E r \in Requests, matches \in TierAnswers : IndexReturns(r, TRUE, matches)
  \/ \E r \in Requests, firecrawl \in FirecrawlOutcomes : WebSearchReturns(r, firecrawl)
  \/ \E r \in Requests, generation \in SystemGenerations : GenerationReturns(r, generation)
  \/ \E r \in Requests, firecrawl \in FirecrawlOutcomes : GeneralWebSearchReturns(r, firecrawl)
  \/ \E r \in Requests, generation \in SystemGenerations :
       GeneralGenerationReturns(r, generation)
  \/ \E r \in Requests : Respond(r)
  \/ \E r \in Requests : Return(r)
  \/ \E f \in SystemFeedback, answer \in RatedAnswers :
       /\ Len(feedbacks) < MaxFeedback
       /\ StoreFeedback(f.question, answer, f.rating, f.isCareerRelated)
       /\ UNCHANGED extVars

Spec == Init /\ [][Next]_vars

(***************************************************************************)
(* One askQuestion call over every ranked index answer.                    *)
(***************************************************************************)
RetrievalNext ==
  \/ \E webSearchEnabled \in BOOLEAN :
       /\ calls = 0
       /\ AskQuestion(1, <<"n","g","à","n","h"," ","i","t">>, "default", webSearchEnabled)
       /\ UNCHANGED extVars
  \/ EmbeddingReturns(1, TRUE)
  \/ \E matches \in RankedMatches(MaxMatches) : IndexReturns(1, TRUE, matches)
  \/ \E firecrawl \in FirecrawlOutcomes : WebSearchReturns(1, firecrawl)
  \/ \E generation \in GenerationOutcomes : GenerationReturns(1, generation)
  \/ Respond(1)
  \/ Return(1)

RetrievalSpec == Init /\ [][RetrievalNext]_vars

(***************************************************************************)
(* askQuestion calls that overlap: a call can start while another waits    *)
(* for an external call, one call per slot.  Web search is off and the     *)
(* index answers.                                                          *)
(***************************************************************************)
OverlapNext ==
  \/ \E r \in Requests, question \in Questions, conversationId \in ConversationIds :
       /\ calls < NumReq
       /\ FreeSlot(r)
       /\ AskQuestion(r, question, conversationId, FALSE)
       /\ UNCHANGED extVars
  \/ \E r \in Requests : EmbeddingReturns(r, TRUE)
  \/ \E r \in Requests, matches \in TierAnswers : IndexReturns(r, TRUE, matches)
  \/ \E r \in Requests, generation \in SystemGenerations : GenerationReturns(r, generation)
  \/ \E r \in Requests, generation \in SystemGenerations :
       GeneralGenerationReturns(r, generation)
  \/ \E r \in Requests : Respond(r)
  \/ \E r \in Requests : Return(r)

OverlapSpec == Init /\ [][OverlapNext]_vars

(***************************************************************************)
(* The public methods of FeedbackService called on their own: the feedback *)
(* log with its read methods, and the session logs with theirs.  A read    *)
(* leaves its call in cq and its return value in cres.                     *)
(***************************************************************************)
\* feedback records stored in one behaviour of the feedback log
MaxStored == 2
\* turns added in one behaviour of the session logs
MaxTurns == 3

\* questions of one structure (a pronoun and a number) and one of another
FeedbackQuestions ==
  { <<"e","m"," ","1">>, <<"A","n","h"," ","2","2">>, <<"t","ô","i"," ","1">>,
    <<"c","h","ị"," ","1">>, <<"i","t"," ","1">> }

\* the feedback users give: every question liked with one answer, and one
\* question rated every way with another, as a grounded or a general exchange
FeedbackInputs ==
  { [question |-> q, answer |-> <<"A","1">>, rating |-> "positive",
     isCareerRelated |-> isCareerRelatedQuestion(q)] : q \in FeedbackQuestions }
  \cup
  { [question |-> <<"e","m"," ","1">>, answer |-> <<"A","2">>, rating |-> r,
     isCareerRelated |-> (r = "negative")] : r \in Ratings }

GetLearnedResponses(question) ==
  /\ cq' = <<"getLearnedResponses", question>>
  /\ cres' = <<getLearnedResponses(learningData, question)>>
  /\ UNCHANGED <<mainVars, extVars>>

GetFeedbackStats ==
  /\ cq' = <<"getFeedbackStats">>
  /\ cres' = <<getFeedbackStats(feedbacks)>>
  /\ UNCHANGED <<mainVars, extVars>>

FeedbackNext ==
  \/ \E f \in FeedbackInputs :
       /\ Len(feedbacks) < MaxStored
       /\ StoreFeedback(f.question, f.answer, f.rating, f.isCareerRelated)
       /\ UNCHANGED extVars
  \/ \E question \in FeedbackQuestions : GetLearnedResponses(question)
  \/ GetFeedbackStats

FeedbackSpec == Init /\ [][FeedbackNext]_vars

\* the turns askQuestion adds: a question, a grounded answer with sources, a
\* general answer
SessionTurns ==
  { [role |-> "user", content |-> <<"q","1">>, metadata |-> NoFields],
    [role |-> "user", content |-> <<"q","2">>, metadata |-> NoFields],
    [role |-> "assistant", content |-> <<"A","1">>,
     metadata |-> [isCareerRelated |-> TRUE, sources |-> <<"a.pdf">>]],
    [role |-> "assistant", content |-> <<"A","1">>,
     metadata |-> [isCareerRelated |-> FALSE]] }

\* the values of maxMessages: none, fewer than the log can hold, and the two
\* sizes askQuestion asks for
ContextSizes == {0, 1, 2, GeneralContextSize, CareerContextSize}

\* the turns of all session logs
RECURSIVE TurnCount(_, _)
TurnCount(convs, ids) ==
  IF ids = {} THEN 0
  ELSE LET id == CHOOSE id \in ids : TRUE
       IN Len(convs[id]) + TurnCount(convs, ids \ {id})

AddMessage(conversationId, role, content, metadata) ==
  /\ conversations' = addMessage(conversations, conversationId, role, content, metadata)
  /\ UNCHANGED <<feedbacks, learningData, firecrawlApp, req, calls, cq, cres, extVars>>

GetConversationContext(conversationId, maxMessages) ==
  /\ cq' = <<"getConversationContext", conversationId, maxMessages>>
  /\ cres' = <<getConversationContext(conversations, conversationId, maxMessages)>>
  /\ UNCHANGED <<mainVars, extVars>>

SessionNext ==
  \/ \E conversationId \in ConversationIds, turn \in SessionTurns :
       /\ TurnCount(conversations, DOMAIN conversations) < MaxTurns
       /\ AddMessage(conversationId, turn.role, turn.content, turn.metadata)
  \/ \E conversationId \in ConversationIds, maxMessages \in ContextSizes :
       GetConversationContext(conversationId, maxMessages)

SessionSpec == Init /\ [][SessionNext]_vars

(***************************************************************************)
(* The dialogue through POST /api/ask: the user saves preferences in the   *)
(* browser and asks questions one after the other in the session           *)
(* 'default'; the page sends the web-search switch with every question.    *)
(***************************************************************************)
\* questions asked in one behaviour of the dialogue
MaxExchanges == 3

DialogueNext ==
  \/ \E prefs \in { [name |-> name, occupation |-> << >>, traits |-> traits,
                     additionalInfo |-> << >>] :
                      name \in {<<"A","n">>, << >>},
                      traits \in {<< <<"c","o","n","c","i","s","e">> >>, << >>} } :
       /\ preferences["browser"] = << >>
       /\ SavePreferences(prefs)
  \/ \E question \in Questions \cup {<< >>}, webSearchEnabled \in BOOLEAN :
       /\ calls < MaxExchanges
       /\ PostAsk(1, [question |-> question, conversationId |-> "default",
                      webSearchEnabled |-> webSearchEnabled])
  \/ \E statsOk \in BOOLEAN : IsIndexedReturns(1, statsOk)
  \/ \E ok \in BOOLEAN : EmbeddingReturns(1, ok)
  \/ \E matches \in TierAnswers : IndexReturns(1, TRUE, matches)
  \/ \E generation \in SystemGenerations : GenerationReturns(1, generation)
  \/ \E generation \in SystemGenerations : GeneralGenerationReturns(1, generation)
  \/ Respond(1)
  \/ RouteRespond(1)

DialogueSpec == Init /\ [][DialogueNext]_vars

(***************************************************************************)
(* The chat page giving feedback while the server accepts or refuses the   *)
(* posts, and the retry loop started when the page is mounted.             *)
(***************************************************************************)
ClientNext ==
  \/ \E feedback \in { f \in FeedbackInputs : f.question = <<"e","m"," ","1">> } :
       /\ Cardinality(page.given) < MaxStored
       /\ HandleFeedback(feedback)
  \/ \E feedback \in FeedbackInputs, ok \in BOOLEAN : FeedbackPostReturns(feedback, ok)
  \/ RetryPendingFeedback
  \/ \E ok \in BOOLEAN : RetryPostReturns(ok)

ClientSpec == Init /\ [][ClientNext]_vars

(***************************************************************************)
(* One ingestion request, every step failing or not.                       *)
(***************************************************************************)
IngestNext ==
  \/ \E clearIndex \in BOOLEAN : PostIngest(clearIndex)
  \/ \E ok \in BOOLEAN : ClearIndexReturns(ok)
  \/ \E chunks \in DocumentChunks : ProcessDocumentsReturns(chunks)
  \/ \E ok \in BOOLEAN : GenerateEmbeddingsReturns(ok)
  \/ \E ok \in BOOLEAN : EnsureIndexReturns(ok)
  \/ \E ok \in BOOLEAN : UpsertReturns(ok)

IngestSpec == Init /\ [][IngestNext]_vars

(***************************************************************************)
(* Claims about the classifier.                                            *)
(***************************************************************************)
Classified == Len(cres) = 1

Verdict == cres[1]

HasDenyTerm(q) == SomeIncluded(definitivelyNotCareerKeywords, toLowerCase(q))

HasDomainTerm(q) == SomeIncluded(fptEducationKeywords, toLowerCase(q))

Completed(r) == req[r].pc = "done"

\* the call of slot r returned a result object
Returned(r) == Completed(r) /\ Len(req[r].result) = 1

ResultOf(r) == req[r].result[1]

\* the session log of the call of slot r
LogOf(r) == MapGet(conversations, req[r].conversationId)

IsApology(result) ==
  /\ result.answer = fallbackAnswer
  /\ RatEq(result.confidence, Rat(1, 10))
  /\ ~result.isCareerRelated

\* C1: askQuestion never raises; whatever the question, the session, the web flag
\* and the failures of the embedding, index, web search and generation calls, a
\* completed call has returned a result object with answer, sources,
\* hasRelevantContent, isCareerRelated and confidence.
C1_NeverRaises ==
  \A r \in Requests :
    /\ ~req[r].thrown
    /\ Completed(r) =>
         /\ Returned(r)
         /\ {"answer", "sources", "hasRelevantContent", "isCareerRelated", "confidence"}
              \subseteq DOMAIN ResultOf(r)

\* a call that returned although its web search and its generation call both failed
C1_Witness ==
  \E r \in Requests :
    /\ Returned(r)
    /\ req[r].failed = {"web", "generation"}

\* C2 as stated: when the embedding call or the index query of a grounded question
\* fails, generation is still invoked and the result is the one of tier none:
\* sources general_knowledge, hasRelevantContent false, not the apology.
C2_RetrievalFailureIsTierNone ==
  \A r \in Requests :
    (Returned(r) /\ req[r].failed \cap {"embedding", "index"} # {}) =>
      /\ \E i \in 1..Len(req[r].called) : req[r].called[i] = "generation"
      /\ ResultOf(r).sources = <<"general_knowledge">>
      /\ ~ResultOf(r).hasRelevantContent
      /\ ~IsApology(ResultOf(r))

\* the embedding call and the index query of slot r did not fail
RetrievalWorked(r) == req[r].failed \cap {"embedding", "index"} = {}

\* C3 as stated, for the calls whose retrieval did not fail: a failed generation
\* call, on the grounded and on the general route, ends in the apology with
\* confidence 0.1 and isCareerRelated false; and the apology is returned in that
\* case only.
C3_ApologyIffGenerationFailed ==
  \A r \in Requests :
    (Returned(r) /\ RetrievalWorked(r)) =>
      (IsApology(ResultOf(r)) <=> "generation" \in req[r].failed)

\* C4 as stated, for the calls whose retrieval did not fail: a completed call, the
\* one ending in the apology after a generation failure included, has appended one
\* user turn holding the question and, right after it, one assistant turn holding
\* the returned answer.
C4_ExchangeAppended ==
  \A r \in Requests :
    (Returned(r) /\ RetrievalWorked(r)) =>
      /\ req[r].userTurn \in 1..Len(LogOf(r))
      /\ LogOf(r)[req[r].userTurn].role = "user"
      /\ LogOf(r)[req[r].userTurn].content = req[r].question
      /\ req[r].assistantTurn = req[r].userTurn + 1
      /\ req[r].assistantTurn \in 1..Len(LogOf(r))
      /\ LogOf(r)[req[r].assistantTurn].role = "assistant"
      /\ LogOf(r)[req[r].assistantTurn].content = ResultOf(r).answer

\* the web section a grounded prompt would carry for the web sources of slot r
WebSectionOf(r) == webContextOf(req[r].webSources)

\* C5 as stated: when the web search fails in a call with webSearchEnabled, the call
\* still returns, answered from documents only: no webSources in the result, no
\* web section in the prompt, and the confidence of the same retrieval outcome
\* without web search.
C5_WebFailureDocumentOnly ==
  \A r \in Requests :
    (Returned(r) /\ req[r].webSearchEnabled /\ "web" \in req[r].failed
       /\ ~IsApology(ResultOf(r))) =>
      /\ "webSources" \notin DOMAIN ResultOf(r)
      /\ Len(WebSectionOf(r)) = 0
      /\ req[r].isCareerRelated =>
           RatEq(ResultOf(r).confidence,
                 careerResult(req[r].searchResults, << >>, FALSE,
                              ResultOf(r).answer).confidence)

(***************************************************************************)
(* Claims about the retrieval tiers of processCareerQuestion.              *)
(***************************************************************************)
\* processCareerQuestion of slot r returned after a generation call
Answered(r) == Len(req[r].inner) = 1 /\ req[r].inner[1].tier \in {"high", "low", "none"}

InnerOf(r) == req[r].inner[1]

\* the matches of a result set with a score above a threshold, in hundredths
Above(matches, threshold) == SelectSeq(matches, LAMBDA m : m.score > threshold)

C10_SourceAttribution ==
  \A r \in Requests :
    (Answered(r) /\ Returned(r)) =>
      LET sources == ResultOf(r).sources
          passages == InnerOf(r).passages
      IN IF InnerOf(r).tier = "none"
         THEN /\ sources = <<"general_knowledge">>
              /\ ~ResultOf(r).hasRelevantContent
         ELSE /\ ResultOf(r).hasRelevantContent
              /\ Len(sources) > 0
              /\ \A i, j \in 1..Len(sources) : sources[i] = sources[j] => i = j
              /\ {sources[i] : i \in 1..Len(sources)}
                   = {passages[i].metadata.source : i \in 1..Len(passages)}
              /\ \A i \in 1..Len(sources) : sources[i] # "general_knowledge"

\* a returned high-tier answer over two passages of one document
C10_Witness ==
  \E r \in Requests :
    /\ Answered(r)
    /\ Returned(r)
    /\ InnerOf(r).tier = "high"
    /\ Len(InnerOf(r).passages) = 2
    /\ InnerOf(r).passages[1].metadata.source = InnerOf(r).passages[2].metadata.source
    /\ Len(ResultOf(r).sources) = 1

(***************************************************************************)
(* Claims about the confidence of a grounded answer.                       *)
(***************************************************************************)
\* the smaller of two fractions
RatMin(a, b) == IF RatLeq(a, b) THEN a ELSE b

\* the sum of two fractions
RatPlus(a, b) == Rat(a.num * b.den + b.num * a.den, a.den * b.den)

\* the mean score of the passages of an answer
MeanScore(passages) == Rat(SumScores(passages), 100 * Len(passages))

\* web sources were obtained for the answer of slot r
WebObtained(r) == Len(InnerOf(r).webSources) > 0

\* C11: the confidence of a generated grounded answer is determined by the
\* tier, the mean score of the admitted passages and whether web sources were
\* obtained: at tier high it is min(0.95, mean + 0.2), and min(0.98, that + 0.1)
\* with web sources; at tier low 0.55, or 0.65 with web sources; at tier none
\* 0.6, or 0.75 with web sources.
C11_ConfidenceTable ==
  \A r \in Requests :
    Answered(r) =>
      LET base == RatMin(Rat(95, 100), RatPlus(MeanScore(InnerOf(r).passages), Rat(20, 100)))
          expected ==
            CASE InnerOf(r).tier = "high" ->
                   IF WebObtained(r) THEN RatMin(Rat(98, 100), RatPlus(base, Rat(10, 100)))
                   ELSE base
              [] InnerOf(r).tier = "low" ->
                   IF WebObtained(r) THEN Rat(65, 100) ELSE Rat(55, 100)
              [] InnerOf(r).tier = "none" ->
                   IF WebObtained(r) THEN Rat(75, 100) ELSE Rat(60, 100)
      IN RatEq(InnerOf(r).confidence, expected)

\* a high-tier answer with web sources whose confidence is held at 0.98
C11_Witness ==
  \E r \in Requests :
    /\ Answered(r)
    /\ InnerOf(r).tier = "high"
    /\ WebObtained(r)
    /\ RatLeq(Rat(89, 100), MeanScore(InnerOf(r).passages))
    /\ RatEq(InnerOf(r).confidence, Rat(98, 100))

\* C12: a high-tier answer without web sources has a confidence between 0.7
\* and 0.95, a single admitted passage of score 0.4 gives about 0.7, and a
\* high-tier answer is never less confident than a low-tier one.
C12_HighTierAtLeastSeventy ==
  \A r \in Requests :
    (Answered(r) /\ InnerOf(r).tier = "high") =>
      /\ ~WebObtained(r) =>
           /\ RatLeq(Rat(70, 100), InnerOf(r).confidence)
           /\ RatLeq(InnerOf(r).confidence, Rat(95, 100))
      /\ (~WebObtained(r) /\ Len(InnerOf(r).passages) = 1
            /\ InnerOf(r).passages[1].score = 40) =>
           /\ RatLeq(Rat(65, 100), InnerOf(r).confidence)
           /\ RatLeq(InnerOf(r).confidence, Rat(75, 100))
      /\ RatLeq(IF WebObtained(r) THEN Rat(65, 100) ELSE Rat(55, 100),
                InnerOf(r).confidence)

(***************************************************************************)
(* Claims about learned responses and the feedback log.                    *)
(***************************************************************************)
\* processCareerQuestion of slot r returned a learned response
Learned(r) == Len(req[r].inner) = 1 /\ req[r].inner[1].tier = "learned"

\* C13: a grounded question for which getLearnedResponses returns at least one
\* candidate is answered without an embedding call, an index query, a web
\* search call or a generation call: the answer is one of the candidates, with
\* confidence 0.9, sources learned_response and usedWebSearch false, whether
\* webSearchEnabled is set or not.
C13_LearnedShortCircuit ==
  /\ [](\A r \in Requests :
          Learned(r) =>
            /\ req[r].called = << >>
            /\ Returned(r) =>
                 /\ ResultOf(r).answer = req[r].inner[1].answer
                 /\ RatEq(ResultOf(r).confidence, Rat(90, 100))
                 /\ ResultOf(r).sources = <<"learned_response">>
                 /\ ResultOf(r).usedWebSearch = FALSE)
  /\ [][\A r \in Requests :
          (/\ req[r].pc = "idle"
           /\ req'[r].pc # "idle"
           /\ req'[r].isCareerRelated
           /\ Len(getLearnedResponses(learningData, req'[r].question)) > 0) =>
            /\ req'[r].pc = "respond"
            /\ req'[r].called = << >>
            /\ Len(req'[r].inner) = 1
            /\ req'[r].inner[1].tier = "learned"
            /\ \E k \in 1..Len(getLearnedResponses(learningData, req'[r].question)) :
                 req'[r].inner[1].answer
                   = getLearnedResponses(learningData, req'[r].question)[k]]_vars

\* a call with web search enabled that returned a learned response
C13_Witness ==
  \E r \in Requests :
    /\ Learned(r)
    /\ Returned(r)
    /\ req[r].webSearchEnabled
    /\ req[r].isCareerRelated
    /\ ResultOf(r).sources = <<"learned_response">>

\* the first- and second-person pronouns
Pronouns ==
  { <<"t","ô","i">>, <<"m","ì","n","h">>, <<"e","m">>, <<"a","n","h">>, <<"c","h","ị">> }

\* a word with each run of digits written as one mark
RECURSIVE DigitShape(_)
DigitShape(word) ==
  IF Len(word) = 0 THEN << >>
  ELSE IF word[1] \in Digits
       THEN IF Len(word) > 1 /\ word[2] \in Digits THEN DigitShape(Tail(word))
            ELSE <<"#">> \o DigitShape(Tail(word))
       ELSE <<word[1]>> \o DigitShape(Tail(word))

\* the structure of a question: its words without letter case, a pronoun as one
\* mark, a run of digits as one mark
StructureOf(question) ==
  LET words == SplitOnSpace(toLowerCase(question))
  IN [i \in 1..Len(words) |->
        IF words[i] \in Pronouns THEN <<"@">> ELSE DigitShape(words[i])]

\* the records of the feedback log rated positive
PositiveRecords == { i \in 1..Len(feedbacks) : feedbacks[i].rating = "positive" }

\* the elements of a list
ElementsOf(list) == { list[i] : i \in 1..Len(list) }

\* C14: two questions that differ only in letter case, in their runs of digits
\* or in the first- or second-person pronoun they use have the same normalized
\* pattern, so once a positive rating is stored for one, the lookup of the
\* other returns the rated answer.
C14_SameStructureSamePattern ==
  \A i \in PositiveRecords, question \in FeedbackQuestions :
    StructureOf(feedbacks[i].question) = StructureOf(question) =>
      /\ extractQuestionPattern(feedbacks[i].question) = extractQuestionPattern(question)
      /\ feedbacks[i].answer \in ElementsOf(getLearnedResponses(learningData, question))

\* the normalized pattern of each question, computed once
PatternOf == [question \in FeedbackQuestions |-> extractQuestionPattern(question)]

\* the answers of the positive records whose question has the pattern of question
PositiveAnswersFor(question) ==
  { feedbacks[i].answer :
      i \in { j \in PositiveRecords : PatternOf[feedbacks[j].question] = PatternOf[question] } }

\* C15: getLearnedResponses(q) returns exactly the answers of the stored
\* records rated positive whose question has the normalized pattern of q,
\* negative and neutral records contributing nothing, and the call changes
\* neither the feedback log nor the learned-answer index, so that two lookups
\* with no storeFeedback between them return the same candidates.
C15_LookupReadsPositiveRecords ==
  /\ [](\A question \in FeedbackQuestions :
          ElementsOf(getLearnedResponses(learningData, question))
            = PositiveAnswersFor(question))
  /\ [][(/\ <<cq, cres>>' # <<cq, cres>>
         /\ cq'[1] = "getLearnedResponses") =>
          /\ ElementsOf(cres'[1]) = PositiveAnswersFor(cq'[2])
          /\ UNCHANGED <<mainVars, extVars>>]_vars

\* a lookup that returned the one liked answer of a pattern whose other answer
\* was disliked, asked with another question of the pattern
C15_Witness ==
  /\ Len(feedbacks) = 2
  /\ \E i \in 1..2 : feedbacks[i].rating = "negative" /\ feedbacks[i].answer = <<"A","2">>
  /\ \E i \in 1..2 : feedbacks[i].rating = "positive" /\ feedbacks[i].question = <<"e","m"," ","1">>
  /\ cq = <<"getLearnedResponses", <<"A","n","h"," ","2","2">> >>
  /\ cres = << << <<"A","1">> >> >>

\* C16: no answer text appears twice under one pattern of the learned-answer
\* index, also when the same question and answer are rated positive again.
C16_NoAnswerTwice ==
  \A pattern \in DOMAIN learningData :
    \A i, j \in 1..Len(learningData[pattern]) :
      i # j => learningData[pattern][i] # learningData[pattern][j]

\* C17: the statistics have total equal to the number of stored records, to
\* positive + negative + neutral and to careerRelated + generalChat, and
\* getFeedbackStats changes no state.
C17_StatsConsistent ==
  /\ [](LET stats == getFeedbackStats(feedbacks)
        IN /\ stats.total = Len(feedbacks)
           /\ stats.total = stats.positive + stats.negative + stats.neutral
           /\ stats.total = stats.careerRelated + stats.generalChat
           /\ stats.positive = Cardinality(PositiveRecords))
  /\ [][(/\ <<cq, cres>>' # <<cq, cres>>
         /\ cq'[1] = "getFeedbackStats") =>
          /\ cres'[1].total = Len(feedbacks)
          /\ cres'[1].total = cres'[1].positive + cres'[1].negative + cres'[1].neutral
          /\ cres'[1].total = cres'[1].careerRelated + cres'[1].generalChat
          /\ UNCHANGED <<mainVars, extVars>>]_vars

\* statistics read after a liked general answer and a disliked grounded one
C17_Witness ==
  /\ cq = <<"getFeedbackStats">>
  /\ Len(cres) = 1
  /\ cres[1].total = 2
  /\ cres[1].positive = 1
  /\ cres[1].negative = 1
  /\ cres[1].generalChat = 1
  /\ cres[1].careerRelated = 1
  /\ Len(feedbacks) = 2

(***************************************************************************)
(* Claims about the session logs.                                          *)
(***************************************************************************)
\* the smaller of two numbers
Min(a, b) == IF a < b THEN a ELSE b

\* the last n turns of a log, or all of them when it has fewer, oldest first
LastTurns(log, n) ==
  [i \in 1..Min(n, Len(log)) |-> log[Len(log) - Min(n, Len(log)) + i]]

\* two lists hold the same turns, role and content, in the same order
SameTurns(a, b) ==
  /\ Len(a) = Len(b)
  /\ \A i \in 1..Len(a) : a[i].role = b[i].role /\ a[i].content = b[i].content

ContextTurns(log) ==
  [i \in 1..Len(log) |-> [k \in (DOMAIN log[i]) \ {"sources"} |-> log[i][k]]]

\* the log of session id, empty before its first turn
SessionLog(convs, id) == MapGet(convs, id)

\* the number of turns of history the route of slot r asks for
ContextSizeOf(r) == IF req[r].isCareerRelated THEN CareerContextSize ELSE GeneralContextSize

\* C19: under any interleaving of askQuestion calls for distinct
\* conversationIds, a session's log grows only by the question of a call made
\* with its id, when the call starts, and by the answer of such a call, when it
\* responds, and the history a call reads for its prompt is made of turns of
\* its own session only.
C19_SessionIsolation ==
  /\ [](\A r \in Requests :
          req[r].pc # "idle" =>
            /\ req[r].userTurn \in 1..Len(LogOf(r))
            /\ LogOf(r)[req[r].userTurn].role = "user"
            /\ LogOf(r)[req[r].userTurn].content = req[r].question
            /\ req[r].conversationContext
                 = ContextTurns(LastTurns(SubSeq(LogOf(r), 1, req[r].userTurn),
                                          ContextSizeOf(r))))
  /\ [][\A id \in ConversationIds :
          SessionLog(conversations', id) # SessionLog(conversations, id) =>
            \E r \in Requests :
              /\ req'[r].conversationId = id
              /\ Len(SessionLog(conversations', id)) = Len(SessionLog(conversations, id)) + 1
              /\ SubSeq(SessionLog(conversations', id), 1, Len(SessionLog(conversations, id)))
                   = SessionLog(conversations, id)
              /\ LET turn == SessionLog(conversations', id)[Len(SessionLog(conversations', id))]
                 IN \/ /\ req[r].pc = "idle"
                       /\ req'[r].pc # "idle"
                       /\ turn.role = "user"
                       /\ turn.content = req'[r].question
                    \/ /\ req[r].pc = "respond"
                       /\ req'[r].pc = "done"
                       /\ turn.role = "assistant"
                       /\ turn.content = req'[r].result[1].answer]_vars

\* two calls of different sessions waiting for the generator at the same time,
\* each with the history of its own session
C19_Witness ==
  /\ req[1].pc = "generation"
  /\ req[2].pc = "generalGeneration"
  /\ req[1].conversationId # req[2].conversationId
  /\ Len(req[1].conversationContext) = 1
  /\ Len(req[2].conversationContext) = 1
  /\ req[1].conversationContext # req[2].conversationContext

(***************************************************************************)
(* Claims about the general route.                                         *)
(***************************************************************************)
\* the external calls the call of slot r made
CallsOf(r) == { req[r].called[i] : i \in 1..Len(req[r].called) }

\* C20: a question classified as not grounded makes no embedding call and no
\* index query, has the generator called, and returns isCareerRelated false,
\* hasRelevantContent false and no sources.
C20_GeneralRouteGenerates ==
  \A r \in Requests :
    (Returned(r) /\ ~isCareerRelatedQuestion(req[r].question)) =>
      /\ "embedding" \notin CallsOf(r)
      /\ "index" \notin CallsOf(r)
      /\ "generation" \in CallsOf(r)
      /\ ResultOf(r).isCareerRelated = FALSE
      /\ ResultOf(r).hasRelevantContent = FALSE
      /\ ResultOf(r).sources = << >>

(***************************************************************************)
(* Claims about the order of the external calls, the document section of   *)
(* the prompt, the order of turns and disapproved answers.                 *)
(***************************************************************************)
\* the external calls of a grounded request that is not answered from a
\* learned response, in the order of processCareerQuestion
CallOrder(r) ==
  IF req[r].webSearchEnabled THEN <<"embedding", "index", "web", "generation">>
  ELSE <<"embedding", "index", "generation">>

DocumentSectionOf(r) ==
  buildContextualCareerPrompt(req[r].question, req[r].conversationContext,
                              combinedContextOf(req[r].searchResults,
                                                webContextOf(req[r].webSources))).documentContext

\* C26: the document section of the prompt of a high- or low-tier answer holds
\* the content text of every admitted chunk that ingestDocuments stored, and
\* is never missing or made of empty passage texts only.
C26_StoredContentInPrompt ==
  \A r \in Requests :
    (Answered(r) /\ InnerOf(r).tier \in {"high", "low"}) =>
      /\ DocumentSectionOf(r) # << >>
      /\ \A i \in 1..Len(InnerOf(r).passages) :
           Includes(DocumentSectionOf(r), InnerOf(r).passages[i].metadata.content)

\* C27: in a session, every assistant turn is the turn right after the user
\* turn it answers, also when two askQuestion calls with the same
\* conversationId overlap.
C27_AnswerFollowsQuestion ==
  \A r \in Requests :
    req[r].assistantTurn > 0 => req[r].assistantTurn = req[r].userTurn + 1

\* C30: an answer whose latest rating for a question pattern is negative is
\* not returned by getLearnedResponses for that pattern.
C30_DisapprovedNotReused ==
  \A i \in 1..Len(feedbacks) :
    (/\ feedbacks[i].rating = "negative"
     /\ \A j \in (i + 1)..Len(feedbacks) :
          ~(/\ feedbacks[j].answer = feedbacks[i].answer
            /\ PatternOf[feedbacks[j].question] = PatternOf[feedbacks[i].question])) =>
      feedbacks[i].answer
        \notin ElementsOf(getLearnedResponses(learningData, feedbacks[i].question))

(***************************************************************************)
(* The dialogue through the route: web-search switch, user profile,        *)
(* history block.                                                          *)
(***************************************************************************)
\* C21: when the body of POST /api/ask carries webSearchEnabled = true,
\* askQuestion runs with webSearchEnabled = true, and the data of the response
\* carries the webSources and usedWebSearch fields of the result.
C21_WebSearchFlagReachesEngine ==
  /\ [](\A r \in Requests :
          (http[r].stage = "askQuestion" /\ http[r].body.webSearchEnabled)
            => req[r].webSearchEnabled)
  /\ [][\A r \in Requests :
          (http[r].stage = "askQuestion" /\ http'[r].stage = "responded"
             /\ http'[r].status = 200)
            => \A field \in {"webSources", "usedWebSearch"} \cap DOMAIN req[r].result[1] :
                 /\ field \in DOMAIN http'[r].data
                 /\ http'[r].data[field] = req[r].result[1][field]]_vars

\* the prompt of the grounded call of slot r, as handed to generateAnswer
PromptOf(r) ==
  buildContextualCareerPrompt(req[r].question, req[r].conversationContext,
                              combinedContextOf(req[r].searchResults,
                                                webContextOf(req[r].webSources)))

\* hasPreferences: some field of the saved preferences is filled in
hasPreferences(prefs) ==
  /\ prefs # << >>
  /\ \/ Len(prefs[1].name) > 0 \/ Len(prefs[1].occupation) > 0
     \/ Len(prefs[1].traits) > 0 \/ Len(prefs[1].additionalInfo) > 0

\* C22: once the user has saved preferences with a name, an occupation, traits or
\* notes, the prompt of the next grounded question holds the user-profile block and
\* the personality instruction derived from them; without saved preferences the
\* block is left out.
C22_ProfileReachesPrompt ==
  \A r \in Requests :
    req[r].pc = "generation" =>
      LET saved == localStorage["chatbot-preferences"]
      IN /\ hasPreferences(saved) =>
              /\ PromptOf(r).userContext = getUserContext(saved)
              /\ PromptOf(r).personalityInstruction = getPersonalityInstruction(saved)
         /\ saved = << >> => PromptOf(r).userContext = << >>

\* the turns of a list whose grounding flag is not false, as positions
Qualifying(turns) ==
  { i \in 1..Len(turns) :
      ~("isCareerRelated" \in DOMAIN turns[i] /\ turns[i].isCareerRelated = FALSE) }

\* the last n of a set of positions
LastPositions(positions, n) ==
  { i \in positions : Cardinality({ j \in positions : j > i }) < n }

\* the turns of a list at a set of positions, in the order of the list
TurnsAt(turns, positions) ==
  [n \in 1..Cardinality(positions) |->
     turns[CHOOSE i \in positions : Cardinality({ j \in positions : j < i }) = n - 1]]

\* the history block made of a list of turns, one line per turn
HistoryBlockOf(turns) ==
  Join([n \in 1..Len(turns) |-> historyLine(turns[n])], <<"\n">>)

C28_HistoryBeforeRequest ==
  \A r \in Requests :
    req[r].pc = "generation" =>
      LET before == SubSeq(ContextTurns(LogOf(r)), 1, req[r].userTurn - 1)
          recent == LastTurns(before, 5)
      IN PromptOf(r).history
           = HistoryBlockOf(TurnsAt(recent, LastPositions(Qualifying(recent), 3)))

(***************************************************************************)
(* Feedback given while the server is unreachable.                         *)
(***************************************************************************)
\* the feedback is in the feedback log of the server
Accepted(fbs, feedback) == \E i \in 1..Len(fbs) : fbs[i] = feedback

\* the feedback is in the pendingFeedback item of a localStorage
Queued(storage, feedback) ==
  \E i \in 1..Len(storage["pendingFeedback"]) : storage["pendingFeedback"][i] = feedback

\* C23: under any interleaving of handleFeedback calls and a running
\* retryPendingFeedback, every feedback the user gave is accepted by the server or
\* still in the pendingFeedback queue once no post is in flight, and an item
\* leaves the queue only after the server accepted it.
C23_NoFeedbackLost ==
  /\ []((page.posts = {} /\ page.retry.pc = "idle") =>
          \A feedback \in page.given :
            Accepted(feedbacks, feedback) \/ Queued(localStorage, feedback))
  /\ [][\A feedback \in page.given :
          (Queued(localStorage, feedback) /\ ~Queued(localStorage', feedback))
            => Accepted(feedbacks', feedback)]_vars

(***************************************************************************)
(* Ingestion.                                                              *)
(***************************************************************************)
\* C29: when POST /api/ingest ends in an error (no chunk, an embedding failure,
\* an upsert failure part-way through the batches), the index holds the vectors it
\* held before the request, also when the request set clearIndex = true.
C29_FailedIngestLeavesIndex ==
  ingest.pc = "failed" => index = ingest.before
====
